---- MODULE Spec2Model ----
(***************************************************************************)
(* Graph-Vector Retrieval core of viber: the Code Knowledge Graph store    *)
(* (CKGService), the TypeScript source analyzer feeding it, and the        *)
(* vector indexing pipeline (VectorService, ChunkerService,                *)
(* InMemoryVectorStore), and the hybrid scoring engine (GVRService).       *)
(*                                                                         *)
(* Paths and import specifiers are sequences of path segments              *)
(* ("lib/index.ts" is <<"lib", "index.ts">>, "./B" is <<".", "B">>).       *)
(* A file content is a record [rev, items]: items are the top-level        *)
(* declarations of the file in source order.  Hashes (sha256, md5) are     *)
(* modelled as injective tags of what they hash.                           *)
(***************************************************************************)
EXTENDS Integers, Sequences, FiniteSets, TLC

VARIABLES graph, fileChecksums, ckgPending, ret, dirTask,
          documents, fileIndex, vecChecksums, vecTask, nextUuid, vret,
          gvrTask, gret,
          changeSets, csNextId, csRet

ckgVars == <<graph, fileChecksums, ckgPending, ret, dirTask>>

vecVars == <<documents, fileIndex, vecChecksums, vecTask, nextUuid, vret>>

gvrVars == <<gvrTask, gret>>

csVars == <<changeSets, csNextId, csRet>>

vars == <<ckgVars, vecVars, gvrVars, csVars>>

(***************************************************************************)
(* Bounds of the model                                                     *)
(***************************************************************************)
MaxTasks == 2
MaxDepth == 3
MaxUuid == 8
MaxChangeSets == 2

VIdle == [pc |-> "idle"]
GIdle == [pc |-> "idle"]
DIdle == [pc |-> "idle"]

\* the indexFile calls that may be in progress in the vector service at once
VecCalls == {"first", "second"}
NoNode == [id |-> <<>>, type |-> "none"]
ReadError == [rev |-> 0, items |-> <<>>]
NoRet == [op |-> "none"]

(***************************************************************************)
(* Generic sequence helpers                                                *)
(***************************************************************************)
Range(s) == {s[i] : i \in 1..Len(s)}

RECURSIVE Flatten(_)
Flatten(ss) == IF ss = <<>> THEN <<>> ELSE Head(ss) \o Flatten(Tail(ss))

(***************************************************************************)
(* path.basename / path.dirname / path.join on segment sequences           *)
(***************************************************************************)
Basename(p) == p[Len(p)]

Dirname(p) == SubSeq(p, 1, Len(p) - 1)

RECURSIVE NormalizeFrom(_, _, _)
NormalizeFrom(segs, i, acc) ==
    IF i > Len(segs) THEN acc
    ELSE IF segs[i] = "." THEN NormalizeFrom(segs, i + 1, acc)
    ELSE IF segs[i] = ".." /\ acc # <<>> /\ acc[Len(acc)] # ".."
         THEN NormalizeFrom(segs, i + 1, SubSeq(acc, 1, Len(acc) - 1))
    ELSE NormalizeFrom(segs, i + 1, Append(acc, segs[i]))

PathJoin(base, rel) == NormalizeFrom(base \o rel, 1, <<>>)

\* `${importSource}${suffix}`: the suffix extends the last segment
WithSuffix(importSource, suffix) ==
    [importSource EXCEPT ![Len(importSource)] = @ \o suffix]

\* importSource.startsWith('.')
IsRelative(importSource) ==
    importSource # <<>> /\ Head(importSource) \in {".", ".."}

PossiblePaths_rawFirst(filePath, importSource) ==
    LET baseDir == Dirname(filePath) IN
    << PathJoin(baseDir, importSource),
       PathJoin(baseDir, WithSuffix(importSource, ".ts")),
       PathJoin(baseDir, WithSuffix(importSource, ".tsx")),
       PathJoin(baseDir, importSource \o <<"index.ts">>),
       PathJoin(baseDir, importSource \o <<"index.tsx">>) >>

PossiblePaths(filePath, importSource) ==
    LET baseDir == Dirname(filePath) IN
    << PathJoin(baseDir, WithSuffix(importSource, ".ts")),
       PathJoin(baseDir, WithSuffix(importSource, ".tsx")),
       PathJoin(baseDir, importSource \o <<"index.ts">>),
       PathJoin(baseDir, importSource \o <<"index.tsx">>),
       PathJoin(baseDir, importSource) >>

(***************************************************************************)
(* TypeScriptParser                                                        *)
(***************************************************************************)
Sha256(content) == <<"sha256", content>>

GenerateNodeId(filePath, type, name) == <<type, filePath, name>>

MkNode(filePath, type, name) ==
    [id |-> GenerateNodeId(filePath, type, name), type |-> type,
     name |-> name, filePath |-> filePath]

MkEdge(type, sourceId, targetId) ==
    [type |-> type, sourceId |-> sourceId, targetId |-> targetId]

\* nodes pushed by visitNode for one top-level declaration
ItemNodes(filePath, item) ==
    IF item.kind = "import" THEN << MkNode(filePath, "import", item.source) >>
    ELSE IF item.kind = "class"
    THEN << MkNode(filePath, "class", item.name) >>
         \o [k \in 1..Len(item.methods) |->
               [id |-> GenerateNodeId(filePath, "method",
                                      <<item.name, item.methods[k]>>),
                type |-> "method", name |-> item.methods[k],
                filePath |-> filePath]]
    ELSE << MkNode(filePath, item.kind, item.name) >>

\* edges pushed by visitNode for one top-level declaration
ItemEdges(filePath, fileNodeId, item) ==
    IF item.kind = "import"
    THEN << MkEdge("imports", fileNodeId,
                   GenerateNodeId(filePath, "import", item.source)) >>
    ELSE IF item.kind = "class"
    THEN LET classId == GenerateNodeId(filePath, "class", item.name) IN
         << MkEdge("contains", fileNodeId, classId) >>
         \o [k \in 1..Len(item.extends) |->
               MkEdge("extends", classId,
                      GenerateNodeId(filePath, "class", item.extends[k]))]
         \o [k \in 1..Len(item.implements) |->
               MkEdge("implements", classId,
                      GenerateNodeId(filePath, "interface", item.implements[k]))]
         \o [k \in 1..Len(item.methods) |->
               MkEdge("contains", classId,
                      GenerateNodeId(filePath, "method",
                                     <<item.name, item.methods[k]>>))]
    ELSE << MkEdge("contains", fileNodeId,
                   GenerateNodeId(filePath, item.kind, item.name)) >>

ImportSources(items) ==
    LET idx == {k \in 1..Len(items) : items[k].kind = "import"}
        RECURSIVE Pick(_)
        Pick(k) == IF k > Len(items) THEN <<>>
                   ELSE IF k \in idx THEN <<items[k].source>> \o Pick(k + 1)
                   ELSE Pick(k + 1)
    IN Pick(1)

\* parseFile: the FileAnalysis of a file whose text was read as `content`
ParseFile(filePath, content) ==
    LET fileNode == MkNode(filePath, "file", Basename(filePath))
        items == content.items
    IN [filePath |-> filePath,
        nodes |-> <<fileNode>>
                  \o Flatten([k \in 1..Len(items) |-> ItemNodes(filePath, items[k])]),
        edges |-> Flatten([k \in 1..Len(items) |->
                              ItemEdges(filePath, fileNode.id, items[k])]),
        imports |-> ImportSources(items),
        checksum |-> Sha256(content)]

(***************************************************************************)
(* CKGService: graph = [nodes (Map in insertion order), edges (array)]     *)
(***************************************************************************)
EmptyGraph == [nodes |-> <<>>, edges |-> <<>>]

\* Map.set: an existing key keeps its position, a new key goes last
MapSet(nodeSeq, node) ==
    IF \E k \in 1..Len(nodeSeq) : nodeSeq[k].id = node.id
    THEN [k \in 1..Len(nodeSeq) |->
            IF nodeSeq[k].id = node.id THEN node ELSE nodeSeq[k]]
    ELSE Append(nodeSeq, node)

RECURSIVE AddNodes(_, _)
AddNodes(nodeSeq, newNodes) ==
    IF newNodes = <<>> THEN nodeSeq
    ELSE AddNodes(MapSet(nodeSeq, Head(newNodes)), Tail(newNodes))

NodeIds(g) == {g.nodes[k].id : k \in 1..Len(g.nodes)}

GetNode(g, id) ==
    IF id \in NodeIds(g)
    THEN g.nodes[CHOOSE k \in 1..Len(g.nodes) : g.nodes[k].id = id]
    ELSE NoNode

NodeIdsOfFile(g, filePath) ==
    {g.nodes[k].id : k \in {j \in 1..Len(g.nodes) : g.nodes[j].filePath = filePath}}

FindFileNode(g, filePath) ==
    LET hits == {k \in 1..Len(g.nodes) :
                    g.nodes[k].type = "file" /\ g.nodes[k].filePath = filePath}
    IN IF hits = {} THEN NoNode
       ELSE g.nodes[CHOOSE k \in hits : \A j \in hits : k <= j]

RemoveFileFromGraph_sourceOnly(g, filePath) ==
    LET nodeIdsToRemove == NodeIdsOfFile(g, filePath)
        KeepNode(n) == n.id \notin nodeIdsToRemove
        KeepEdge(e) == e.sourceId \notin nodeIdsToRemove
    IN [nodes |-> SelectSeq(g.nodes, KeepNode),
        edges |-> SelectSeq(g.edges, KeepEdge)]

RemoveFileFromGraph(g, filePath) ==
    LET nodeIdsToRemove == NodeIdsOfFile(g, filePath)
        KeepNode(n) == n.id \notin nodeIdsToRemove
        KeepEdge(e) == e.sourceId \notin nodeIdsToRemove
                       /\ e.targetId \notin nodeIdsToRemove
    IN [nodes |-> SelectSeq(g.nodes, KeepNode),
        edges |-> SelectSeq(g.edges, KeepEdge)]

\* the first candidate path that has a file node, or NoNode
RECURSIVE FirstFileNode(_, _, _)
FirstFileNode(g, possiblePaths, k) ==
    IF k > Len(possiblePaths) THEN NoNode
    ELSE IF FindFileNode(g, possiblePaths[k]) # NoNode
         THEN FindFileNode(g, possiblePaths[k])
    ELSE FirstFileNode(g, possiblePaths, k + 1)

RECURSIVE LinkImportsFrom(_, _, _)
LinkImportsFrom(g, analysis, k) ==
    IF k > Len(analysis.imports) THEN g
    ELSE LET importSource == analysis.imports[k]
             fileNode == IF IsRelative(importSource)
                         THEN FirstFileNode(g, PossiblePaths(analysis.filePath,
                                                             importSource), 1)
                         ELSE NoNode
             currentFileNode == FindFileNode(g, analysis.filePath)
         IN IF fileNode # NoNode /\ currentFileNode # NoNode
            THEN LinkImportsFrom(
                   [g EXCEPT !.edges = Append(@, MkEdge("depends_on",
                                                        currentFileNode.id,
                                                        fileNode.id))],
                   analysis, k + 1)
            ELSE LinkImportsFrom(g, analysis, k + 1)

LinkImports(g, analysis) == LinkImportsFrom(g, analysis, 1)

ChecksumUnchanged_never(checksums, filePath, checksum) == FALSE

\* existingChecksum === analysis.checksum
ChecksumUnchanged(checksums, filePath, checksum) ==
    filePath \in DOMAIN checksums /\ checksums[filePath] = checksum

InsertAnalysis_nothing(g, analysis) == g

\* add new nodes, add new edges, link imports
InsertAnalysis(g, analysis) ==
    LinkImports([nodes |-> AddNodes(g.nodes, analysis.nodes),
                 edges |-> g.edges \o analysis.edges], analysis)

MapPut(m, key, val) ==
    [x \in DOMAIN m \cup {key} |-> IF x = key THEN val ELSE m[x]]

\* the body of indexFile after parseFile has resolved or rejected
IndexFileBody(g, checksums, filePath, content) ==
    IF content = ReadError
    THEN [graph |-> g, checksums |-> checksums, removedEdges |-> 0,
          result |-> [updated |-> FALSE, nodesCreated |-> 0, edgesCreated |-> 0]]
    ELSE LET analysis == ParseFile(filePath, content) IN
         IF ChecksumUnchanged(checksums, filePath, analysis.checksum)
         THEN [graph |-> g, checksums |-> checksums, removedEdges |-> 0,
               result |-> [updated |-> FALSE, nodesCreated |-> 0,
                           edgesCreated |-> 0]]
         ELSE [graph |-> InsertAnalysis(RemoveFileFromGraph(g, filePath), analysis),
               checksums |-> MapPut(checksums, filePath, analysis.checksum),
               removedEdges |-> Len(g.edges)
                                - Len(RemoveFileFromGraph(g, filePath).edges),
               result |-> [updated |-> TRUE,
                           nodesCreated |-> Len(analysis.nodes),
                           edgesCreated |-> Len(analysis.edges)]]

(***************************************************************************)
(* Dependency queries: traverse(nodeId, currentDepth) threads the results  *)
(* array and the visited set through the loop over graph.edges.            *)
(* dir = "in" follows edges into nodeId (getDependents), dir = "out"       *)
(* follows edges out of it (getDependencies).                              *)
(***************************************************************************)
EdgeNear(e, dir) == IF dir = "in" THEN e.targetId ELSE e.sourceId

EdgeFar(e, dir) == IF dir = "in" THEN e.sourceId ELSE e.targetId

DepthExceeded_never(currentDepth, depth) == FALSE

DepthExceeded(currentDepth, depth) == currentDepth > depth

RECURSIVE Traverse(_, _, _, _, _, _)
RECURSIVE TraverseEdges(_, _, _, _, _, _, _)
Traverse(g, dir, depth, nodeId, currentDepth, st) ==
    IF DepthExceeded(currentDepth, depth) \/ nodeId \in st.visited THEN st
    ELSE TraverseEdges(g, dir, depth, nodeId, currentDepth, 1,
                       [st EXCEPT !.visited = @ \cup {nodeId}])

TraverseEdges(g, dir, depth, nodeId, currentDepth, k, st) ==
    IF k > Len(g.edges) THEN st
    ELSE LET edge == g.edges[k]
             farNode == GetNode(g, EdgeFar(edge, dir))
         IN IF EdgeNear(edge, dir) = nodeId /\ edge.type = "depends_on"
               /\ farNode # NoNode /\ farNode.type = "file"
            THEN TraverseEdges(g, dir, depth, nodeId, currentDepth, k + 1,
                   Traverse(g, dir, depth, EdgeFar(edge, dir), currentDepth + 1,
                     [st EXCEPT !.results =
                        Append(@, [file |-> farNode.filePath,
                                   depth |-> currentDepth,
                                   relationship |-> edge.type])]))
            ELSE TraverseEdges(g, dir, depth, nodeId, currentDepth, k + 1, st)

DependencyQuery_noGuard(g, dir, filePath, depth) ==
    LET fileNode == FindFileNode(g, filePath) IN
    IF fileNode = NoNode
    THEN << [file |-> filePath, depth |-> 0, relationship |-> "TypeError"] >>
    ELSE Traverse(g, dir, depth, fileNode.id, 1,
                  [results |-> <<>>, visited |-> {}]).results

DependencyQuery(g, dir, filePath, depth) ==
    LET fileNode == FindFileNode(g, filePath) IN
    IF fileNode = NoNode THEN <<>>
    ELSE Traverse(g, dir, depth, fileNode.id, 1,
                  [results |-> <<>>, visited |-> {}]).results

GetDependents(g, filePath, depth) == DependencyQuery(g, "in", filePath, depth)

GetDependencies(g, filePath, depth) == DependencyQuery(g, "out", filePath, depth)

GetNodesForFile(g, filePath) ==
    LET OfFile(n) == n.filePath = filePath IN SelectSeq(g.nodes, OfFile)

(***************************************************************************)
(* The source tree the graph store is run on: paths and, for each path,    *)
(* the contents the source provider may return for it.                     *)
(***************************************************************************)
PathA == <<"A.ts">>
PathB == <<"B.ts">>
PathC == <<"C.ts">>
PathD == <<"D.ts">>
PathE == <<"E.ts">>
PathMissing == <<"missing.ts">>
PathF == <<"lib", "F.ts">>

Import(source) == [kind |-> "import", source |-> source]

Class(name, extends) ==
    [kind |-> "class", name |-> name, extends |-> extends,
     implements |-> <<>>, methods |-> <<"run">>]

ContentsA ==
    { [rev |-> 1, items |-> << Import(<<".", "B.ts">>) >>],
      [rev |-> 2, items |-> << Import(<<".", "B">>) >>],
      [rev |-> 3, items |-> << Import(<<".", "B">>), Import(<<".", "B.ts">>) >>] }

ContentsB ==
    { [rev |-> 1, items |-> << Class("Base", <<>>) >>],
      [rev |-> 2, items |-> << Class("Base", <<>>), Class("Impl", <<"Base">>) >>] }

ContentsC ==
    { [rev |-> 1, items |-> << Import(<<".", "A">>), Import(<<".", "B">>) >>],
      [rev |-> 2, items |-> << Import(<<"express">>), Import(<<".", "gone">>),
                               Class("Widget", <<"Component">>) >>] }

ContentsD == { [rev |-> 1, items |-> << Import(<<".", "C">>) >>] }

ContentsE == { [rev |-> 1, items |-> << Import(<<".", "D">>) >>] }

ContentsF == { [rev |-> 1, items |-> << Import(<<"..", "B">>) >>] }

Paths == {PathA, PathB}

ChainPaths == {PathA, PathB, PathC, PathD, PathE}

Contents(filePath) ==
    IF filePath = PathA THEN ContentsA
    ELSE IF filePath = PathB THEN ContentsB
    ELSE IF filePath = PathC THEN ContentsC
    ELSE IF filePath = PathD THEN ContentsD
    ELSE IF filePath = PathE THEN ContentsE
    ELSE IF filePath = PathF THEN ContentsF
    ELSE {}

\* what reading filePath yields: one of its contents, or a failure when the
\* file does not exist
Readable(filePath) ==
    IF Contents(filePath) = {} THEN {ReadError} ELSE Contents(filePath)

\* the dependency chain E -> D -> C -> {A, B}, A -> B, one content per file
ChainContent(filePath) ==
    IF filePath = PathA THEN [rev |-> 2, items |-> << Import(<<".", "B">>) >>]
    ELSE CHOOSE content \in Contents(filePath) : content.rev = 1

(***************************************************************************)
(* Graph store: state machine.  indexFile suspends once, on parseFile;     *)
(* everything after it runs without suspension.  ckgPending holds the      *)
(* indexFile calls suspended on parseFile, each with the content its read  *)
(* returns.  The queries and clear are synchronous.  ret is the last       *)
(* completed call with what it returned; for indexFile it also logs how    *)
(* many edges removeFileFromGraph dropped in that call, and whether the    *)
(* call completed right after a clear() that had wiped the checksum of the *)
(* very content it indexes.                                                *)
(***************************************************************************)
InitGraph ==
    /\ graph = EmptyGraph
    /\ fileChecksums = << >>
    /\ ckgPending = {}
    /\ ret = NoRet
    /\ dirTask = DIdle

InitVector ==
    /\ documents = << >>
    /\ fileIndex = << >>
    /\ vecChecksums = << >>
    /\ vecTask = [i \in VecCalls |-> VIdle]
    /\ nextUuid = 0
    /\ vret = NoRet

InitGVR == gvrTask = GIdle /\ gret = NoRet

InitChangeSets ==
    /\ changeSets = << >>
    /\ csNextId = 1
    /\ csRet = NoRet

Init == InitGraph /\ InitVector /\ InitGVR /\ InitChangeSets

IndexFileCall(filePath, content) ==
    /\ Cardinality(ckgPending) < MaxTasks
    /\ ckgPending' = ckgPending \cup {[path |-> filePath, content |-> content]}
    /\ UNCHANGED <<graph, fileChecksums, ret>>
    /\ UNCHANGED <<dirTask, vecVars, gvrVars, csVars>>

IndexFileResume(task) ==
    /\ task \in ckgPending
    /\ LET out == IndexFileBody(graph, fileChecksums, task.path, task.content)
       IN /\ graph' = out.graph
          /\ fileChecksums' = out.checksums
          /\ ret' = [op |-> "indexFile", path |-> task.path,
                     content |-> task.content, result |-> out.result,
                     removedEdges |-> out.removedEdges,
                     afterClear |-> /\ ret.op = "clear"
                                    /\ task.content # ReadError
                                    /\ task.path \in DOMAIN ret.wiped
                                    /\ ret.wiped[task.path]
                                          = Sha256(task.content)]
    /\ ckgPending' = ckgPending \ {task}
    /\ UNCHANGED <<dirTask, vecVars, gvrVars, csVars>>

GetDependentsCall(filePath, depth) ==
    /\ ret' = [op |-> "getDependents", path |-> filePath, depth |-> depth,
               result |-> GetDependents(graph, filePath, depth)]
    /\ UNCHANGED <<graph, fileChecksums, ckgPending>>
    /\ UNCHANGED <<dirTask, vecVars, gvrVars, csVars>>

GetDependenciesCall(filePath, depth) ==
    /\ ret' = [op |-> "getDependencies", path |-> filePath, depth |-> depth,
               result |-> GetDependencies(graph, filePath, depth)]
    /\ UNCHANGED <<graph, fileChecksums, ckgPending>>
    /\ UNCHANGED <<dirTask, vecVars, gvrVars, csVars>>

GetNodesForFileCall(filePath) ==
    /\ ret' = [op |-> "getNodesForFile", path |-> filePath,
               result |-> GetNodesForFile(graph, filePath)]
    /\ UNCHANGED <<graph, fileChecksums, ckgPending>>
    /\ UNCHANGED <<dirTask, vecVars, gvrVars, csVars>>

\* this.fileChecksums.clear()
ClearChecksums_kept(checksums) == checksums

ClearChecksums(checksums) == << >>

\* clear(); ret logs the checksum map it wiped
Clear ==
    /\ graph' = EmptyGraph
    /\ fileChecksums' = ClearChecksums(fileChecksums)
    /\ ret' = [op |-> "clear", wiped |-> fileChecksums]
    /\ UNCHANGED ckgPending
    /\ UNCHANGED <<dirTask, vecVars, gvrVars, csVars>>

NextCKG ==
    \/ \E filePath \in Paths \cup {PathMissing} :
          \E content \in Readable(filePath) : IndexFileCall(filePath, content)
    \/ \E task \in ckgPending : IndexFileResume(task)
    \/ \E filePath \in Paths \cup {PathMissing}, depth \in 1..MaxDepth :
          GetDependentsCall(filePath, depth)
    \/ \E filePath \in Paths \cup {PathMissing}, depth \in 1..MaxDepth :
          GetDependenciesCall(filePath, depth)
    \/ \E filePath \in Paths \cup {PathMissing} : GetNodesForFileCall(filePath)
    \/ Clear

SpecCKG == Init /\ [][NextCKG]_vars

\* the files of the chain indexed one call at a time, each awaited before
\* the next (as indexDirectory does), with dependency queries in between
NextChain ==
    \/ \E filePath \in ChainPaths :
          ckgPending = {} /\ IndexFileCall(filePath, ChainContent(filePath))
    \/ \E task \in ckgPending : IndexFileResume(task)
    \/ \E filePath \in ChainPaths, depth \in 1..MaxDepth :
          GetDependentsCall(filePath, depth)
    \/ \E filePath \in ChainPaths : GetDependenciesCall(filePath, MaxDepth)

SpecChain == Init /\ [][NextChain]_vars

(***************************************************************************)
(* ChunkerService.  A text is the sequence of its lines; a line is         *)
(* [text, len]: what it says and how many characters it has.               *)
(***************************************************************************)
MaxChunkSize == 512
ChunkOverlap == 64
MinChunkSize == 50

\* Math.ceil(length / 4)
EstimateTokens(length) == (length + 3) \div 4

RECURSIVE SumLen(_)
SumLen(lines) == IF lines = <<>> THEN 0 ELSE Head(lines).len + SumLen(Tail(lines))

\* lines.join('\n').length
JoinedLength(lines) ==
    IF lines = <<>> THEN 0 ELSE SumLen(lines) + Len(lines) - 1

\* walks backwards from line k of lines, keeping lines while they fit
RECURSIVE OverlapFrom(_, _, _, _, _)
OverlapFrom(lines, targetTokens, k, tokens, result) ==
    IF k < 1 THEN result
    ELSE LET lineTokens == EstimateTokens(lines[k].len) IN
         IF tokens + lineTokens > targetTokens THEN result
         ELSE OverlapFrom(lines, targetTokens, k - 1, tokens + lineTokens,
                          <<lines[k]>> \o result)

CalculateOverlapLines(lines, targetTokens) ==
    OverlapFrom(lines, targetTokens, Len(lines), 0, <<>>)

CreateChunk_checksumOfId(filePath, content, startLine, endLine, uuid) ==
    [id |-> uuid, content |-> content, filePath |-> filePath,
     startLine |-> startLine, endLine |-> endLine,
     checksum |-> Sha256(<<uuid, content>>)]

CreateChunk(filePath, content, startLine, endLine, uuid) ==
    [id |-> uuid, content |-> content, filePath |-> filePath,
     startLine |-> startLine, endLine |-> endLine, checksum |-> Sha256(content)]

EmitChunk_always(chunks, filePath, cur, startLine, uuid0) ==
    Append(chunks, CreateChunk(filePath, cur, startLine,
                               startLine + Len(cur) - 1,
                               uuid0 + Len(chunks) + 1))

\* chunks \o the chunk made of the lines cur, when it meets the minimum size
EmitChunk(chunks, filePath, cur, startLine, uuid0) ==
    IF EstimateTokens(JoinedLength(cur)) >= MinChunkSize
    THEN Append(chunks, CreateChunk(filePath, cur, startLine,
                                    startLine + Len(cur) - 1,
                                    uuid0 + Len(chunks) + 1))
    ELSE chunks

\* the for loop of chunkContent from line index i (0-based) on;
\* st = [chunks, currentChunk, currentTokens, startLine, dropped]; dropped
\* logs, for every candidate cut off without being emitted, its first and
\* last line and the startLine the loop continues with
RECURSIVE ChunkLoop(_, _, _, _, _)
ChunkLoop(filePath, lines, i, st, uuid0) ==
    IF i >= Len(lines)
    THEN [chunks |-> IF Len(st.currentChunk) > 0
                     THEN EmitChunk(st.chunks, filePath, st.currentChunk,
                                    st.startLine, uuid0)
                     ELSE st.chunks,
          dropped |-> st.dropped]
    ELSE LET line == lines[i + 1]
             lineTokens == EstimateTokens(line.len)
             cut == st.currentTokens + lineTokens > MaxChunkSize
                    /\ Len(st.currentChunk) > 0
             overlapLines == CalculateOverlapLines(st.currentChunk, ChunkOverlap)
             st1 == IF cut
                    THEN [chunks |-> EmitChunk(st.chunks, filePath, st.currentChunk,
                                               st.startLine, uuid0),
                          currentChunk |-> overlapLines,
                          currentTokens |-> EstimateTokens(JoinedLength(overlapLines)),
                          startLine |-> i + 1 - Len(overlapLines),
                          dropped |->
                             IF EmitChunk(st.chunks, filePath, st.currentChunk,
                                          st.startLine, uuid0) = st.chunks
                             THEN Append(st.dropped,
                                         [startLine |-> st.startLine,
                                          endLine |-> st.startLine
                                                      + Len(st.currentChunk) - 1,
                                          next |-> i + 1 - Len(overlapLines)])
                             ELSE st.dropped]
                    ELSE st
         IN ChunkLoop(filePath, lines, i + 1,
                      [st1 EXCEPT !.currentChunk = Append(@, line),
                                  !.currentTokens = @ + lineTokens], uuid0)

\* chunkContent; the chunk ids are the uuids uuid0+1, uuid0+2, ...
ChunkContent(filePath, content, uuid0) ==
    ChunkLoop(filePath, content, 0,
              [chunks |-> <<>>, currentChunk |-> <<>>, currentTokens |-> 0,
               startLine |-> 1, dropped |-> <<>>], uuid0).chunks

\* the candidates chunkContent cut off without emitting them
ChunkDropped(filePath, content) ==
    ChunkLoop(filePath, content, 0,
              [chunks |-> <<>>, currentChunk |-> <<>>, currentTokens |-> 0,
               startLine |-> 1, dropped |-> <<>>], 0).dropped

(***************************************************************************)
(* InMemoryVectorStore: documents (Map in insertion order), fileIndex      *)
(***************************************************************************)
RECURSIVE StoreInsert(_, _)
StoreInsert(store, docs) ==
    IF docs = <<>> THEN store
    ELSE LET doc == Head(docs)
             ids == IF doc.filePath \in DOMAIN store.fileIndex
                    THEN store.fileIndex[doc.filePath] ELSE {}
         IN StoreInsert([documents |-> MapSet(store.documents, doc),
                         fileIndex |-> MapPut(store.fileIndex, doc.filePath,
                                              ids \cup {doc.id})],
                        Tail(docs))

StoreDeleteByFile(store, filePath) ==
    IF filePath \in DOMAIN store.fileIndex
    THEN LET docIds == store.fileIndex[filePath]
             Keep(doc) == doc.id \notin docIds
         IN [documents |-> SelectSeq(store.documents, Keep),
             fileIndex |-> [x \in DOMAIN store.fileIndex \ {filePath} |->
                              store.fileIndex[x]]]
    ELSE store

(***************************************************************************)
(* VectorService.indexFile.  The call runs up to its first await           *)
(* (deleteByFile), then resumes after embedBatch, after insert, and        *)
(* returns.  vecTask[i] is the position and the locals of call i.          *)
(***************************************************************************)
\* the embedding of a text, a function of the text alone
EmbedBatch(texts) == [k \in 1..Len(texts) |-> [embeddingOf |-> texts[k]]]

MakeDocs(chunks, embeddings, uuid0) ==
    [k \in 1..Len(chunks) |->
       [id |-> uuid0 + k, chunkId |-> chunks[k].id, embedding |-> embeddings[k],
        content |-> chunks[k].content, filePath |-> chunks[k].filePath,
        startLine |-> chunks[k].startLine, endLine |-> chunks[k].endLine,
        checksum |-> chunks[k].checksum]]

Line(text, len) == [text |-> text, len |-> len]

\* 3 lines, one chunk
TextOne == << Line("a", 400), Line("b", 400), Line("c", 400) >>

\* 6 lines of 100 tokens each: two chunks (lines 1-5 and line 6)
TextTwo == << Line("d", 400), Line("e", 400), Line("f", 400),
              Line("g", 400), Line("h", 400), Line("i", 400) >>

\* below the minimum chunk size: no chunk
TextTiny == << Line("j", 40) >>

VecPaths == {PathA, PathB}

VecContents(filePath) ==
    IF filePath = PathA THEN {TextOne, TextTwo} ELSE {TextOne, TextTiny}

VIndexFileCall(i, filePath, content) ==
    /\ vecTask[i] = VIdle
    /\ LET contentChecksum == Sha256(content)
           store == StoreDeleteByFile([documents |-> documents,
                                       fileIndex |-> fileIndex], filePath)
       IN IF ChecksumUnchanged(vecChecksums, filePath, contentChecksum)
          THEN /\ vret' = [op |-> "indexFile", path |-> filePath,
                           content |-> content, chunksCreated |-> 0]
               /\ UNCHANGED <<documents, fileIndex, vecTask>>
          ELSE /\ documents' = store.documents
               /\ fileIndex' = store.fileIndex
               /\ vecTask' = [vecTask EXCEPT ![i] =
                                [pc |-> "deleted", path |-> filePath,
                                 content |-> content,
                                 contentChecksum |-> contentChecksum]]
               /\ UNCHANGED vret
    /\ UNCHANGED <<vecChecksums, nextUuid>>
    /\ UNCHANGED <<ckgVars, gvrVars, csVars>>

\* after await deleteByFile: chunk, call embedBatch
VIndexFileEmbed(i) ==
    /\ vecTask[i].pc = "deleted"
    /\ LET chunks == ChunkContent(vecTask[i].path, vecTask[i].content, nextUuid)
       IN /\ nextUuid + Len(chunks) <= MaxUuid
          /\ nextUuid' = nextUuid + Len(chunks)
          /\ vecTask' = [vecTask EXCEPT ![i] =
                           [pc |-> "embedded", path |-> vecTask[i].path,
                            content |-> vecTask[i].content,
                            contentChecksum |-> vecTask[i].contentChecksum,
                            chunks |-> chunks,
                            embeddings |->
                               EmbedBatch([k \in 1..Len(chunks) |->
                                             chunks[k].content])]]
    /\ UNCHANGED <<documents, fileIndex, vecChecksums, vret>>
    /\ UNCHANGED <<ckgVars, gvrVars, csVars>>

\* after await embedBatch: build the documents, call insert
VIndexFileInsert(i) ==
    /\ vecTask[i].pc = "embedded"
    /\ LET docs == MakeDocs(vecTask[i].chunks, vecTask[i].embeddings, nextUuid)
           store == StoreInsert([documents |-> documents,
                                 fileIndex |-> fileIndex], docs)
       IN /\ nextUuid + Len(docs) <= MaxUuid
          /\ nextUuid' = nextUuid + Len(docs)
          /\ documents' = store.documents
          /\ fileIndex' = store.fileIndex
          /\ vecTask' = [vecTask EXCEPT ![i] =
                           [pc |-> "inserted", path |-> vecTask[i].path,
                            content |-> vecTask[i].content,
                            contentChecksum |-> vecTask[i].contentChecksum,
                            chunksCreated |-> Len(docs)]]
    /\ UNCHANGED <<vecChecksums, vret>>
    /\ UNCHANGED <<ckgVars, gvrVars, csVars>>

\* after await insert: record the checksum, return
VIndexFileReturn(i) ==
    /\ vecTask[i].pc = "inserted"
    /\ vecChecksums' = MapPut(vecChecksums, vecTask[i].path,
                              vecTask[i].contentChecksum)
    /\ vret' = [op |-> "indexFile", path |-> vecTask[i].path,
                content |-> vecTask[i].content,
                chunksCreated |-> vecTask[i].chunksCreated]
    /\ vecTask' = [vecTask EXCEPT ![i] = VIdle]
    /\ UNCHANGED <<documents, fileIndex, nextUuid>>
    /\ UNCHANGED <<ckgVars, gvrVars, csVars>>

NextVector ==
    \/ \E i \in VecCalls, filePath \in VecPaths :
          \E content \in VecContents(filePath) :
             VIndexFileCall(i, filePath, content)
    \/ \E i \in VecCalls : VIndexFileEmbed(i)
    \/ \E i \in VecCalls : VIndexFileInsert(i)
    \/ \E i \in VecCalls : VIndexFileReturn(i)

SpecVector == Init /\ [][NextVector]_vars

(***************************************************************************)
(* ChunkerService.chunkContent called on its own, on every text of up to   *)
(* MaxLines lines drawn from three kinds of line (1, 32 and 448 tokens).   *)
(***************************************************************************)
MaxLines == 5

LineKinds == { Line("w", 4), Line("x", 125), Line("z", 1789) }

ChunkTexts == UNION { [1..n -> LineKinds] : n \in 1..MaxLines }

ChunkContentCall(filePath, content) ==
    /\ LET chunks == ChunkContent(filePath, content, nextUuid)
       IN /\ nextUuid + Len(chunks) <= MaxUuid
          /\ nextUuid' = nextUuid + Len(chunks)
          /\ vret' = [op |-> "chunkContent", path |-> filePath,
                      content |-> content, chunks |-> chunks,
                      dropped |-> ChunkDropped(filePath, content)]
    /\ UNCHANGED <<documents, fileIndex, vecChecksums, vecTask>>
    /\ UNCHANGED <<ckgVars, gvrVars, csVars>>

NextChunker == \E content \in ChunkTexts : ChunkContentCall(PathA, content)

SpecChunker == Init /\ [][NextChunker]_vars

(***************************************************************************)
(* chunkContent on short texts that may hold a line of 510 tokens, which   *)
(* forces a cut after any candidate of more than 2 tokens.                 *)
(***************************************************************************)
MaxLongLines == 3

LongTexts ==
    UNION { [1..n -> LineKinds \cup {Line("h", 2040)}] : n \in 1..MaxLongLines }

NextLong == \E content \in LongTexts : ChunkContentCall(PathA, content)

SpecLong == Init /\ [][NextLong]_vars

(***************************************************************************)
(* InMemoryVectorStore driven through its own interface: insert, delete,    *)
(* deleteByFile and search, with caller-chosen document ids, file paths    *)
(* and embeddings.  Embeddings are integer vectors whose norm is 0 or 5,   *)
(* so that Math.sqrt is exact on them; a score is kept in hundredths       *)
(* (score 0.96 is 96).                                                     *)
(***************************************************************************)
MaxTopK == 3

RECURSIVE Dot(_, _)
Dot(a, b) == IF a = <<>> THEN 0 ELSE Head(a) * Head(b) + Dot(Tail(a), Tail(b))

\* Math.sqrt on a perfect square
Sqrt(n) == CHOOSE r \in 0..n : r * r = n

\* cosineSimilarity on two vectors of the same length, in hundredths
CosineSimilarity(a, b) ==
    LET denominator == Sqrt(Dot(a, a)) * Sqrt(Dot(b, b))
    IN IF denominator = 0 THEN 0 ELSE (Dot(a, b) * 100) \div denominator

\* cosineSimilarity throws 'Vectors must have same length'
CosineThrows(a, b) == Len(a) # Len(b)

\* filters.filePath && doc.filePath !== filters.filePath; <<>> stands for
\* no filters, no filePath key, or an empty filePath
FilteredOut(doc, filterPath) == filterPath # <<>> /\ doc.filePath # filterPath

\* results.sort((a, b) => b.score - a.score): stable, descending
RECURSIVE InsertByScore(_, _)
InsertByScore(sorted, x) ==
    IF sorted = <<>> THEN <<x>>
    ELSE IF Head(sorted).score >= x.score
         THEN <<Head(sorted)>> \o InsertByScore(Tail(sorted), x)
         ELSE <<x>> \o sorted

SortByScore_unsorted(results) == results

RECURSIVE SortByScore(_)
SortByScore(results) ==
    IF results = <<>> THEN <<>>
    ELSE InsertByScore(SortByScore(SubSeq(results, 1, Len(results) - 1)),
                       results[Len(results)])

\* results.slice(0, topK), topK >= 0
Slice(results, topK) ==
    SubSeq(results, 1, IF topK < Len(results) THEN topK ELSE Len(results))

StoreSearch(store, embedding, topK, filterPath) ==
    LET Passes(doc) == ~FilteredOut(doc, filterPath)
        scanned == SelectSeq(store.documents, Passes)
    IN IF \E k \in 1..Len(scanned) : CosineThrows(embedding, scanned[k].embedding)
       THEN [error |-> TRUE, results |-> <<>>]
       ELSE [error |-> FALSE,
             results |->
                Slice(SortByScore([k \in 1..Len(scanned) |->
                         [id |-> scanned[k].id,
                          score |-> CosineSimilarity(embedding,
                                                     scanned[k].embedding),
                          document |-> scanned[k]]]),
                      topK)]

RECURSIVE StoreDelete(_, _)
StoreDelete(store, ids) ==
    IF ids = <<>> THEN store
    ELSE LET id == Head(ids)
             hits == {k \in 1..Len(store.documents) : store.documents[k].id = id}
         IN IF hits = {} THEN StoreDelete(store, Tail(ids))
            ELSE LET doc == store.documents[CHOOSE k \in hits : TRUE]
                     Keep(d) == d.id # id
                     fileIds == IF doc.filePath \in DOMAIN store.fileIndex
                                THEN store.fileIndex[doc.filePath] \ {id}
                                ELSE {}
                     index == IF doc.filePath \notin DOMAIN store.fileIndex
                              THEN store.fileIndex
                              ELSE IF fileIds = {}
                              THEN [x \in DOMAIN store.fileIndex \ {doc.filePath}
                                      |-> store.fileIndex[x]]
                              ELSE MapPut(store.fileIndex, doc.filePath, fileIds)
                 IN StoreDelete([documents |-> SelectSeq(store.documents, Keep),
                                 fileIndex |-> index],
                                Tail(ids))

StoreIds == {"d1", "d2", "d3"}

Doc(id, filePath, embedding) ==
    [id |-> id, filePath |-> filePath, embedding |-> embedding]

\* the documents callers insert: d1 moves between files and changes its
\* dimension, d3 has a zero vector or a 3-dimensional one
StoreDocs ==
    { Doc("d1", PathA, <<3, 4>>), Doc("d1", PathB, <<3, 4>>),
      Doc("d1", PathA, <<0, 3, 4>>),
      Doc("d2", PathA, <<4, 3>>), Doc("d2", PathB, <<-3, -4>>),
      Doc("d3", PathB, <<3, 4>>), Doc("d3", PathB, <<0, 0>>),
      Doc("d3", PathB, <<0, 3, 4>>) }

InsertBatches ==
    {<<d>> : d \in StoreDocs} \cup {<<d, e>> : d \in StoreDocs, e \in StoreDocs}

DeleteBatches ==
    {<<x>> : x \in StoreIds} \cup {<<x, y>> : x \in StoreIds, y \in StoreIds}

Queries == { <<3, 4>>, <<5, 0>>, <<0, 0>>, <<0, 3, 4>> }

FilterPaths == { <<>>, PathA, PathB, PathMissing }

StoreNow == [documents |-> documents, fileIndex |-> fileIndex]

StoreInsertCall(docs) ==
    /\ documents' = StoreInsert(StoreNow, docs).documents
    /\ fileIndex' = StoreInsert(StoreNow, docs).fileIndex
    /\ vret' = [op |-> "insert"]
    /\ UNCHANGED <<vecChecksums, vecTask, nextUuid>>
    /\ UNCHANGED <<ckgVars, gvrVars, csVars>>

StoreDeleteCall(ids) ==
    /\ documents' = StoreDelete(StoreNow, ids).documents
    /\ fileIndex' = StoreDelete(StoreNow, ids).fileIndex
    /\ vret' = [op |-> "delete"]
    /\ UNCHANGED <<vecChecksums, vecTask, nextUuid>>
    /\ UNCHANGED <<ckgVars, gvrVars, csVars>>

StoreDeleteByFileCall(filePath) ==
    /\ documents' = StoreDeleteByFile(StoreNow, filePath).documents
    /\ fileIndex' = StoreDeleteByFile(StoreNow, filePath).fileIndex
    /\ vret' = [op |-> "deleteByFile", path |-> filePath]
    /\ UNCHANGED <<vecChecksums, vecTask, nextUuid>>
    /\ UNCHANGED <<ckgVars, gvrVars, csVars>>

StoreSearchCall(embedding, topK, filterPath) ==
    /\ vret' = [op |-> "search", embedding |-> embedding, topK |-> topK,
                filterPath |-> filterPath,
                outcome |-> StoreSearch(StoreNow, embedding, topK, filterPath)]
    /\ UNCHANGED <<documents, fileIndex, vecChecksums, vecTask, nextUuid>>
    /\ UNCHANGED <<ckgVars, gvrVars, csVars>>

NextStore ==
    \/ \E docs \in InsertBatches : StoreInsertCall(docs)
    \/ \E ids \in DeleteBatches : StoreDeleteCall(ids)
    \/ \E filePath \in VecPaths : StoreDeleteByFileCall(filePath)
    \/ \E embedding \in Queries, topK \in 1..MaxTopK, filterPath \in FilterPaths :
          StoreSearchCall(embedding, topK, filterPath)

SpecStore == Init /\ [][NextStore]_vars

(***************************************************************************)
(* GVRService.query.  The orchestrator reaches the vector service and the  *)
(* graph service over HTTP; each collaborator call observes the            *)
(* collaborator's state at one instant, or fails, and a failed call        *)
(* yields [].  The query suspends on the vector search, then for each      *)
(* focused file on the dependents lookup and on the node listing; the      *)
(* stores may change in between.  A query text is modelled by its          *)
(* embedding.  Scores from the vector service are in hundredths, weights   *)
(* in tenths, combined scores in thousandths.                              *)
(***************************************************************************)
MaxGvrTopK == 2

\* getGVRWeights with the default configuration 0.6 / 0.3 / 0.1
GetGVRWeights == [semantic |-> 6, graph |-> 3, focus |-> 1]

\* graphContext when includeGraphContext is false
NullContext ==
    [null |-> TRUE, impactedFiles |-> <<>>, dependencyChain |-> <<>>,
     modifiedSymbols |-> <<>>]

\* Set.add, the set kept in insertion order
SetAdd(seq, x) == IF x \in Range(seq) THEN seq ELSE Append(seq, x)

RECURSIVE SetAddAll(_, _)
SetAddAll(seq, xs) ==
    IF xs = <<>> THEN seq ELSE SetAddAll(SetAdd(seq, Head(xs)), Tail(xs))

FilesOf(deps) == [k \in 1..Len(deps) |-> deps[k].file]

SearchVectors(store, query, topK, fails) ==
    LET outcome == StoreSearch(store, query, topK, <<>>)
    IN IF fails \/ outcome.error THEN <<>> ELSE outcome.results

GvrGetDependents_uncaught(g, filePath, depth, fails) ==
    GetDependents(g, filePath, depth)

GvrGetDependents(g, filePath, depth, fails) ==
    IF fails THEN <<>> ELSE GetDependents(g, filePath, depth)

GvrGetNodesForFile(g, filePath, fails) ==
    IF fails THEN <<>> ELSE GetNodesForFile(g, filePath)

\* names of the function, class and method nodes
SymbolNames(nodes) ==
    LET IsSymbol(n) == n.type \in {"function", "class", "method"}
        symbols == SelectSeq(nodes, IsSymbol)
    IN [k \in 1..Len(symbols) |-> symbols[k].name]

\* focusedFiles.forEach((f) => impactedFiles.add(f))
AddFocused_none(impactedFiles, focusedFiles) == impactedFiles

AddFocused(impactedFiles, focusedFiles) == SetAddAll(impactedFiles, focusedFiles)

GraphScore_inverted(impactedFiles, filePath) ==
    IF filePath \in Range(impactedFiles) THEN 0 ELSE 100

GraphScore(impactedFiles, filePath) ==
    IF filePath \in Range(impactedFiles) THEN 100 ELSE 0

FocusScore(focusedFiles, filePath) ==
    IF filePath \in Range(focusedFiles) THEN 100 ELSE 0

CombinedScore_semanticOnly(semanticScore, graphScore, focusScore, weights) ==
    semanticScore * weights.semantic

CombinedScore(semanticScore, graphScore, focusScore, weights) ==
    semanticScore * weights.semantic + graphScore * weights.graph
       + focusScore * weights.focus

ConnectedFiles_uncapped(graphContext, filePath) ==
    IF graphContext.null THEN <<>>
    ELSE LET Connected(d) == d.file = filePath
                             \/ d.file \in Range(graphContext.impactedFiles)
         IN FilesOf(SelectSeq(graphContext.dependencyChain, Connected))

ConnectedFiles(graphContext, filePath) ==
    IF graphContext.null THEN <<>>
    ELSE LET Connected(d) == d.file = filePath
                             \/ d.file \in Range(graphContext.impactedFiles)
         IN Slice(FilesOf(SelectSeq(graphContext.dependencyChain, Connected)), 5)

ScoreResults(vectorResults, graphContext, focusedFiles, weights) ==
    SortByScore(
       [k \in 1..Len(vectorResults) |->
          LET filePath == vectorResults[k].document.filePath
              semanticScore == vectorResults[k].score
              graphScore == GraphScore(graphContext.impactedFiles, filePath)
              focusScore == FocusScore(focusedFiles, filePath)
          IN [id |-> vectorResults[k].id,
              filePath |-> filePath,
              score |-> CombinedScore(semanticScore, graphScore, focusScore,
                                      weights),
              scoreBreakdown |-> [semantic |-> semanticScore,
                                  graphRelevance |-> graphScore,
                                  focusBoost |-> focusScore],
              connectedFiles |-> ConnectedFiles(graphContext, filePath)]])

\* steps 3 and 4 of query and its return value
Respond(q, vectorResults, graphContext) ==
    [results |-> Slice(ScoreResults(vectorResults, graphContext, q.focusedFiles,
                                    GetGVRWeights),
                       q.topK),
     graphContext |-> graphContext,
     metadata |-> [vectorHits |-> Len(vectorResults),
                   graphNodesVisited |-> Len(graphContext.impactedFiles)]]

Context_dependentsOnly(impactedFiles, dependencyChain, modifiedSymbols, focusedFiles) ==
    [null |-> FALSE,
     impactedFiles |-> impactedFiles,
     dependencyChain |-> dependencyChain,
     modifiedSymbols |-> modifiedSymbols]

\* the return value of buildGraphContext
Context(impactedFiles, dependencyChain, modifiedSymbols, focusedFiles) ==
    [null |-> FALSE,
     impactedFiles |-> AddFocused(impactedFiles, focusedFiles),
     dependencyChain |-> dependencyChain,
     modifiedSymbols |-> modifiedSymbols]

GvrPaths == {PathB, PathC, PathD}

\* what the vector service is given to store while queries run
GvrBatches ==
    { << Doc("d1", PathC, <<3, 4>>), Doc("d2", PathD, <<4, 3>>),
         Doc("d3", PathA, <<4, 3>>) >>,
      << Doc("d3", PathA, <<4, 3>>), Doc("d2", PathD, <<4, 3>>) >> }

GvrQueries ==
    [query : {<<3, 4>>},
     focusedFiles : {<<>>, <<PathB, PathC>>},
     topK : {1, MaxGvrTopK},
     graphDepth : {2},
     includeGraphContext : BOOLEAN]

\* one entry of the log of collaborator calls a query has made
GvrCall(route, file, failed) == [route |-> route, file |-> file, failed |-> failed]

\* query up to its first suspension in buildGraphContext, or to its end;
\* calls logs every collaborator call and whether it failed
GvrQueryStart(q, fails) ==
    /\ gvrTask = GIdle
    /\ LET vectorResults == SearchVectors(StoreNow, q.query, q.topK * 2, fails)
           calls == << GvrCall("search", <<>>, fails) >>
       IN gvrTask' =
            IF q.includeGraphContext /\ q.focusedFiles # <<>>
            THEN [pc |-> "dependents", q |-> q, vectorResults |-> vectorResults,
                  k |-> 1, impactedFiles |-> <<>>, dependencyChain |-> <<>>,
                  modifiedSymbols |-> <<>>, returned |-> <<>>,
                  listed |-> <<>>, calls |-> calls]
            ELSE [pc |-> "done", q |-> q, vectorResults |-> vectorResults,
                  returned |-> <<>>, listed |-> <<>>, calls |-> calls,
                  response |->
                     Respond(q, vectorResults,
                             IF q.includeGraphContext
                             THEN Context(<<>>, <<>>, <<>>, q.focusedFiles)
                             ELSE NullContext)]

GvrQueryCall(q, fails) ==
    /\ GvrQueryStart(q, fails)
    /\ UNCHANGED <<ckgVars, vecVars, gret, csVars>>

\* await this.getDependents(file, depth) resolves; returned logs what each
\* lookup returned
GvrDependents(fails) ==
    /\ gvrTask.pc = "dependents"
    /\ LET file == gvrTask.q.focusedFiles[gvrTask.k]
           dependents == GvrGetDependents(graph, file, gvrTask.q.graphDepth, fails)
       IN gvrTask' =
            [gvrTask EXCEPT !.pc = "nodes",
                            !.impactedFiles = SetAddAll(@, FilesOf(dependents)),
                            !.dependencyChain = @ \o dependents,
                            !.returned = Append(@, dependents),
                            !.calls = Append(@, GvrCall("dependents", file, fails))]
    /\ UNCHANGED <<ckgVars, vecVars, gret, csVars>>

\* await this.getNodesForFile(file) resolves; listed logs the symbol names
\* each listing contributed; after the last focused file the query runs to
\* its end
GvrNodes(fails) ==
    /\ gvrTask.pc = "nodes"
    /\ LET file == gvrTask.q.focusedFiles[gvrTask.k]
           nodes == GvrGetNodesForFile(graph, file, fails)
           modifiedSymbols == gvrTask.modifiedSymbols \o SymbolNames(nodes)
           listed == Append(gvrTask.listed, SymbolNames(nodes))
           calls == Append(gvrTask.calls, GvrCall("nodes", file, fails))
       IN gvrTask' =
            IF gvrTask.k < Len(gvrTask.q.focusedFiles)
            THEN [gvrTask EXCEPT !.pc = "dependents", !.k = @ + 1,
                                 !.modifiedSymbols = modifiedSymbols,
                                 !.listed = listed, !.calls = calls]
            ELSE [pc |-> "done", q |-> gvrTask.q,
                  vectorResults |-> gvrTask.vectorResults,
                  returned |-> gvrTask.returned,
                  listed |-> listed, calls |-> calls,
                  response |->
                     Respond(gvrTask.q, gvrTask.vectorResults,
                             Context(gvrTask.impactedFiles,
                                     gvrTask.dependencyChain, modifiedSymbols,
                                     gvrTask.q.focusedFiles))]
    /\ UNCHANGED <<ckgVars, vecVars, gret, csVars>>

\* the response has been delivered
GvrReturn ==
    /\ gvrTask.pc = "done"
    /\ gvrTask' = GIdle
    /\ UNCHANGED <<ckgVars, vecVars, gret, csVars>>

\* axios.post / axios.get without a timeout option: a collaborator that
\* never answers leaves the awaited promise pending for ever
GvrSearchHangs(q) ==
    /\ gvrTask = GIdle
    /\ gvrTask' = [pc |-> "blocked", q |-> q, on |-> "search"]
    /\ UNCHANGED <<ckgVars, vecVars, gret, csVars>>

GvrGraphHangs ==
    /\ gvrTask.pc \in {"dependents", "nodes"}
    /\ gvrTask' = [pc |-> "blocked", q |-> gvrTask.q, on |-> gvrTask.pc]
    /\ UNCHANGED <<ckgVars, vecVars, gret, csVars>>

\* the steps a running query takes once the awaited promise has settled
GvrStep ==
    \/ \E fails \in BOOLEAN : GvrDependents(fails)
    \/ \E fails \in BOOLEAN : GvrNodes(fails)
    \/ GvrReturn

NextGVR ==
    \/ \E filePath \in GvrPaths :
          ckgPending = {} /\ IndexFileCall(filePath, ChainContent(filePath))
    \/ \E task \in ckgPending : IndexFileResume(task)
    \/ \E docs \in GvrBatches : StoreInsertCall(docs)
    \/ \E q \in GvrQueries, fails \in BOOLEAN : GvrQueryCall(q, fails)
    \/ \E q \in GvrQueries : GvrSearchHangs(q)
    \/ GvrGraphHangs
    \/ GvrStep

SpecGVR == Init /\ [][NextGVR]_vars

\* the event loop runs the continuation of every settled promise
SpecGVRFair == SpecGVR /\ WF_vars(GvrStep)

(***************************************************************************)
(* POST /gvr/query.  The route parses the request body with                *)
(* GVRQuerySchema before it touches the service.  A body is a record that  *)
(* holds the fields the client sent; query reads focusedFiles as           *)
(* focusedFiles ?? [], so an omitted focusedFiles is the empty list.       *)
(* gret logs the request and how the route answered or went on.            *)
(***************************************************************************)
Has(body, field) == field \in DOMAIN body

\* z.number().min(lo).max(hi) on an optional field
InRange(body, field, lo, hi) ==
    ~Has(body, field) \/ (body[field] >= lo /\ body[field] <= hi)

OrDefault(body, field, default) ==
    IF Has(body, field) THEN body[field] ELSE default

GVRQuerySchema_unbounded(body) ==
    [success |-> Has(body, "query"),
     data |-> [query |-> OrDefault(body, "query", <<>>),
               focusedFiles |-> OrDefault(body, "focusedFiles", <<>>),
               topK |-> OrDefault(body, "topK", 10),
               graphDepth |-> OrDefault(body, "graphDepth", 2),
               includeGraphContext |-> OrDefault(body, "includeGraphContext", TRUE)]]

\* GVRQuerySchema.safeParse
GVRQuerySchema(body) ==
    [success |-> /\ Has(body, "query")
                 /\ InRange(body, "topK", 1, 50)
                 /\ InRange(body, "graphDepth", 1, 5),
     data |-> [query |-> OrDefault(body, "query", <<>>),
               focusedFiles |-> OrDefault(body, "focusedFiles", <<>>),
               topK |-> OrDefault(body, "topK", 10),
               graphDepth |-> OrDefault(body, "graphDepth", 2),
               includeGraphContext |-> OrDefault(body, "includeGraphContext", TRUE)]]

\* the request bodies of the model: every field but query may be omitted,
\* topK and graphDepth take the values at and around the schema's limits
Bodies ==
    { [query |-> <<3, 4>>] @@ t @@ d @@ i @@ f :
         t \in {<<>>} \cup {[topK |-> n] : n \in {0, 50, 51}},
         d \in {<<>>} \cup {[graphDepth |-> n] : n \in {0, 5, 6}},
         i \in {<<>>, [includeGraphContext |-> FALSE]},
         f \in {<<>>, [focusedFiles |-> <<PathC>>]} }

\* what the vector service is given to store while requests arrive
RouteBatch ==
    << Doc("d1", PathC, <<3, 4>>), Doc("d2", PathD, <<4, 3>>),
       Doc("d3", PathA, <<4, 3>>) >>

\* the handler of POST /gvr/query up to its first suspension
PostGvrQuery(body, fails) ==
    LET result == GVRQuerySchema(body)
    IN IF ~result.success
       THEN /\ gret' = [op |-> "POST /gvr/query", body |-> body, status |-> 400,
                        code |-> "VALIDATION_ERROR"]
            /\ UNCHANGED <<ckgVars, vecVars, gvrTask, csVars>>
       ELSE /\ GvrQueryStart(result.data, fails)
            /\ gret' = [op |-> "POST /gvr/query", body |-> body, status |-> 0,
                        code |-> "executing"]
            /\ UNCHANGED <<ckgVars, vecVars, csVars>>

NextRoute ==
    \/ \E body \in Bodies, fails \in BOOLEAN : PostGvrQuery(body, fails)
    \/ GvrStep
    \/ StoreInsertCall(RouteBatch)

SpecRoute == Init /\ [][NextRoute]_vars

(***************************************************************************)
(* MockEmbeddingAdapter.  A text is the sequence of its UTF-16 code units. *)
(* Numbers of the code that are 32-bit integers are kept as signed 32-bit  *)
(* values; a product that leaves that range is computed byte by byte and   *)
(* wrapped, as (x | 0) and Math.imul do.  The value pushed for one         *)
(* generator step is (random() * 2) - 1 = (n - 2^30) / 2^30 with           *)
(* n = s & 2147483647; the embedding is kept as the sequence of the        *)
(* numerators n - 2^30, which the final division by the magnitude scales   *)
(* by one common positive factor, and nan tells that the magnitude is 0,   *)
(* where the division yields NaN in every entry.                           *)
(***************************************************************************)
\* getEmbeddingDimensions with the default configuration
Dimensions == 384

\* String.prototype.toLowerCase on the code units of the model (ASCII)
ToLowerCase(text) ==
    [k \in 1..Len(text) |-> IF text[k] \in 65..90 THEN text[k] + 32 ELSE text[k]]

IsWhiteSpace(c) == c \in {9, 10, 11, 12, 13, 32}

RECURSIVE TrimStart(_)
TrimStart(text) ==
    IF text # <<>> /\ IsWhiteSpace(Head(text)) THEN TrimStart(Tail(text)) ELSE text

RECURSIVE TrimEnd(_)
TrimEnd(text) ==
    IF text # <<>> /\ IsWhiteSpace(text[Len(text)])
    THEN TrimEnd(SubSeq(text, 1, Len(text) - 1))
    ELSE text

\* String.prototype.trim
Trim(text) == TrimEnd(TrimStart(text))

\* byte i (0 the lowest) of the two's complement form of the 32-bit value s
Byte(s, i) ==
    IF i = 0 THEN s % 256
    ELSE IF i = 1 THEN (s \div 256) % 256
    ELSE IF i = 2 THEN (s \div 65536) % 256
    ELSE (s \div 16777216) % 256

\* (k * s + c) | 0 for a 32-bit s and 0 <= k, c < 65536
MulAdd32(s, k, c) ==
    LET t0 == k * Byte(s, 0) + c
        t1 == k * Byte(s, 1) + t0 \div 256
        t2 == k * Byte(s, 2) + t1 \div 256
        t3 == k * Byte(s, 3) + t2 \div 256
        top == t3 % 256
    IN (t0 % 256) + 256 * (t1 % 256) + 65536 * (t2 % 256)
          + 16777216 * (IF top >= 128 THEN top - 256 ELSE top)

\* seed = ((seed << 5) - seed + charCode) | 0, which is (31 * seed + charCode) | 0
RECURSIVE HashSeed(_, _, _)
HashSeed(seed, normalized, i) ==
    IF i > Len(normalized) THEN seed
    ELSE HashSeed(MulAdd32(seed, 31, normalized[i]), normalized, i + 1)

\* s = Math.imul(48271, s) | 0 % 2147483647, where % binds tighter than |
\* and 0 % 2147483647 is 0
NextRandomState(s) == MulAdd32(s, 48271, 0)

\* s & 2147483647
Low31(s) == IF s < 0 THEN (s + 2147483647) + 1 ELSE s

\* count calls of random() from generator state s: the values pushed and
\* the state left behind.  The run is split in halves so that the
\* evaluation stays shallow; the calls are made in the same order.
RECURSIVE RandomRun(_, _)
RandomRun(s, count) ==
    IF count <= 0 THEN [values |-> <<>>, s |-> s]
    ELSE IF count = 1
    THEN LET next == NextRandomState(s)
         IN [values |-> <<Low31(next) - 1073741824>>, s |-> next]
    ELSE LET first == RandomRun(s, count \div 2)
             second == RandomRun(first.s, count - count \div 2)
         IN [values |-> first.values \o second.values, s |-> second.s]

\* for (let i = 0; i < this.dimensions; i++) embedding.push(...)
GenerateValues_oneShort(seed, dimensions) == RandomRun(seed, dimensions - 1).values

GenerateValues(seed, dimensions) == RandomRun(seed, dimensions).values

GenerateDeterministicEmbedding(text) ==
    LET normalized == Trim(ToLowerCase(text))
        seed == HashSeed(0, normalized, 1)
        values == GenerateValues(seed, Dimensions)
    IN [direction |-> values,
        nan |-> \A k \in 1..Len(values) : values[k] = 0]

\* embed
MockEmbed(text) == GenerateDeterministicEmbedding(text)

\* embedBatch: texts.map((t) => this.generateDeterministicEmbedding(t))
MockEmbedBatch(texts) ==
    [k \in 1..Len(texts) |-> GenerateDeterministicEmbedding(texts[k])]

\* the texts of the model: "", "a", "hello", " Hello" and "embedding"
TextEmpty == <<>>
TextA == <<97>>
TextHello == <<104, 101, 108, 108, 111>>
TextHelloPadded == <<32, 72, 101, 108, 108, 111>>
TextLong == <<101, 109, 98, 101, 100, 100, 105, 110, 103>>

EmbedTexts == {TextEmpty, TextA, TextHello, TextHelloPadded, TextLong}

EmbedBatches ==
    { <<>>, <<TextHelloPadded>>, <<TextA, TextA>>, <<TextHello, TextLong>>,
      <<TextEmpty, TextHello>> }

\* the vector each text got the first time the adapter was asked for it
Seen == IF vret.op \in {"embed", "embedBatch"} THEN vret.seen ELSE << >>

Remember(seen, text, embedding) ==
    IF text \in DOMAIN seen THEN seen ELSE MapPut(seen, text, embedding)

RECURSIVE RememberAll(_, _, _)
RememberAll(seen, texts, embeddings) ==
    IF texts = <<>> THEN seen
    ELSE RememberAll(Remember(seen, Head(texts), Head(embeddings)),
                     Tail(texts), Tail(embeddings))

EmbedCall(text) ==
    /\ LET embedding == MockEmbed(text)
       IN vret' = [op |-> "embed", text |-> text, result |-> embedding,
                   seen |-> Remember(Seen, text, embedding)]
    /\ UNCHANGED <<documents, fileIndex, vecChecksums, vecTask, nextUuid>>
    /\ UNCHANGED <<ckgVars, gvrVars, csVars>>

EmbedBatchCall(texts) ==
    /\ LET embeddings == MockEmbedBatch(texts)
       IN vret' = [op |-> "embedBatch", texts |-> texts, result |-> embeddings,
                   seen |-> RememberAll(Seen, texts, embeddings)]
    /\ UNCHANGED <<documents, fileIndex, vecChecksums, vecTask, nextUuid>>
    /\ UNCHANGED <<ckgVars, gvrVars, csVars>>

NextEmbed ==
    \/ \E text \in EmbedTexts : EmbedCall(text)
    \/ \E texts \in EmbedBatches : EmbedBatchCall(texts)

SpecEmbed == Init /\ [][NextEmbed]_vars

(***************************************************************************)
(* ChangeSetManager.  changeSets is the map from id to change set; uuidv4  *)
(* is modelled by the counter csNextId; new Date() yields one of Times     *)
(* (the wall clock is not monotonic).  csRet is the last call with what    *)
(* it returned.                                                            *)
(***************************************************************************)
ChangeSetStatus == {"pending", "approved", "rejected", "applied", "reverted"}

Null == [null |-> TRUE]

NewChangeSet_approved(id, sessionId, prompt, diffs, generatedBy, now) ==
    [id |-> id, sessionId |-> sessionId, prompt |-> prompt, diffs |-> diffs,
     status |-> "approved", createdAt |-> now, updatedAt |-> now,
     generatedBy |-> generatedBy]

\* the object create builds
NewChangeSet(id, sessionId, prompt, diffs, generatedBy, now) ==
    [id |-> id, sessionId |-> sessionId, prompt |-> prompt, diffs |-> diffs,
     status |-> "pending", createdAt |-> now, updatedAt |-> now,
     generatedBy |-> generatedBy]

\* this.changeSets.get(id) ?? null
GetChangeSet(sets, id) == IF id \in DOMAIN sets THEN sets[id] ELSE Null

\* the ids a caller may name: those uuidv4 has produced or will produce,
\* and one it never produces
ChangeSetIds == 1..(MaxChangeSets + 1)

Sessions == {"s1", "s2"}

\* what new Date().toISOString() may yield
Times == {"t1", "t2"}

\* the statuses the callers of the model send
SentStatuses == {"approved", "applied"}

CsCreate(sessionId, prompt, diffs, generatedBy) ==
    /\ csNextId <= MaxChangeSets
    /\ \E now \in Times :
          LET changeSet == NewChangeSet(csNextId, sessionId, prompt, diffs,
                                        generatedBy, now)
          IN /\ changeSets' = MapPut(changeSets, changeSet.id, changeSet)
             /\ csRet' = [op |-> "create", result |-> changeSet]
    /\ csNextId' = csNextId + 1
    /\ UNCHANGED <<ckgVars, vecVars, gvrVars>>

CsGet(id) ==
    /\ csRet' = [op |-> "get", id |-> id, result |-> GetChangeSet(changeSets, id)]
    /\ UNCHANGED <<changeSets, csNextId>>
    /\ UNCHANGED <<ckgVars, vecVars, gvrVars>>

CsUpdateStatus(id, status) ==
    /\ IF id \notin DOMAIN changeSets
       THEN /\ csRet' = [op |-> "updateStatus", id |-> id, status |-> status,
                         result |-> FALSE]
            /\ UNCHANGED changeSets
       ELSE /\ \E now \in Times :
                  changeSets' = [changeSets EXCEPT ![id].status = status,
                                                   ![id].updatedAt = now]
            /\ csRet' = [op |-> "updateStatus", id |-> id, status |-> status,
                         result |-> TRUE]
    /\ UNCHANGED csNextId
    /\ UNCHANGED <<ckgVars, vecVars, gvrVars>>

CsDelete(id) ==
    /\ changeSets' = [x \in DOMAIN changeSets \ {id} |-> changeSets[x]]
    /\ csRet' = [op |-> "delete", id |-> id, result |-> id \in DOMAIN changeSets]
    /\ UNCHANGED csNextId
    /\ UNCHANGED <<ckgVars, vecVars, gvrVars>>

NextChangeSets ==
    \/ \E sessionId \in Sessions : CsCreate(sessionId, "prompt", <<>>, "local")
    \/ \E id \in ChangeSetIds : CsGet(id)
    \/ \E id \in ChangeSetIds, status \in SentStatuses : CsUpdateStatus(id, status)
    \/ \E id \in ChangeSetIds : CsDelete(id)

SpecChangeSets == Init /\ [][NextChangeSets]_vars

(***************************************************************************)
(* Directory indexing.  indexDirectory walks the tree depth first in the   *)
(* order readdir lists the entries and awaits indexFile for every          *)
(* supported file before it goes on; dirTask is the one directory run,     *)
(* with the files still to visit, the counts so far, a log of every        *)
(* indexFile it awaited and the graph and checksum map it started from.    *)
(* indexProject of the orchestrator posts the directory to the graph       *)
(* service and returns what that run returned; gret is the last value an   *)
(* orchestrator call returned, with the collaborator calls it made.        *)
(***************************************************************************)
\* getSupportedExtensions with the default configuration
SupportedExtensions == {".ts", ".tsx", ".js", ".jsx", ".py"}

SkippedDirectories == {"node_modules", "dist"}

\* a Dirent: kind is "file", "dir" or "other" (a link, a socket ...)
File(name, ext) ==
    [name |-> name, kind |-> "file", ext |-> ext, dot |-> FALSE, entries |-> <<>>]

Dir(name, dot, entries) ==
    [name |-> name, kind |-> "dir", ext |-> "", dot |-> dot, entries |-> entries]

Other(name, ext) ==
    [name |-> name, kind |-> "other", ext |-> ext, dot |-> FALSE, entries |-> <<>>]

\* the files processDir hands to indexFile, in order
RECURSIVE ProcessDir(_, _)
ProcessDir(currentPath, entries) ==
    IF entries = <<>> THEN <<>>
    ELSE LET entry == Head(entries)
             fullPath == PathJoin(currentPath, <<entry.name>>)
         IN (IF entry.kind = "dir"
             THEN IF ~entry.dot /\ entry.name \notin SkippedDirectories
                  THEN ProcessDir(fullPath, entry.entries)
                  ELSE <<>>
             ELSE IF entry.kind = "file" /\ entry.ext \in SupportedExtensions
                  THEN <<fullPath>>
                  ELSE <<>>)
            \o ProcessDir(currentPath, Tail(entries))

NoCounts == [filesIndexed |-> 0, nodesCreated |-> 0, edgesCreated |-> 0]

\* ckgResult: null
NullResult == [null |-> TRUE]

\* if (result.updated) { filesIndexed++; nodesCreated += ...; edgesCreated += ... }
AddCounts_unconditional(counts, result) ==
    [filesIndexed |-> counts.filesIndexed + 1,
     nodesCreated |-> counts.nodesCreated + result.nodesCreated,
     edgesCreated |-> counts.edgesCreated + result.edgesCreated]

AddCounts(counts, result) ==
    IF result.updated
    THEN [filesIndexed |-> counts.filesIndexed + 1,
          nodesCreated |-> counts.nodesCreated + result.nodesCreated,
          edgesCreated |-> counts.edgesCreated + result.edgesCreated]
    ELSE counts

\* the project directory of the model
ProjectRoot == <<>>

ProjectTree ==
    << File("A.ts", ".ts"),
       Dir(".git", TRUE, << File("E.ts", ".ts") >>),
       Dir("node_modules", FALSE, << File("C.ts", ".ts") >>),
       File("notes.md", ".md"),
       Other("D.ts", ".ts"),
       Dir("lib", FALSE, << File("F.ts", ".ts") >>),
       File("B.ts", ".ts") >>

\* what parseFile yields for a file of the project: its content, or a
\* failure to read or parse it
DirReadable(filePath) == {ChainContent(filePath), ReadError}

\* what the vector service is given to store while the project is indexed
DirBatch == << Doc("d1", PathA, <<3, 4>>) >>

\* the collaborator calls of indexProject: one POST /index to the graph
\* service
IndexProjectCalls_bothStores(projectPath, fails) ==
    << GvrCall("ckg index", projectPath, fails),
       GvrCall("vector index", projectPath, fails) >>

IndexProjectCalls(projectPath, fails) ==
    << GvrCall("ckg index", projectPath, fails) >>

\* indexDirectory up to its first indexFile; caller holds the collaborator
\* calls of the indexProject call that posted the directory, and is empty
\* when the graph service was asked directly
IndexDirectoryCall(dirPath, caller) ==
    /\ dirTask = DIdle
    /\ dirTask' = [pc |-> "walk", dirPath |-> dirPath, caller |-> caller,
                   queue |-> ProcessDir(dirPath, ProjectTree),
                   counts |-> NoCounts, log |-> <<>>,
                   start |-> [graph |-> graph, checksums |-> fileChecksums]]
    /\ UNCHANGED <<graph, fileChecksums, ckgPending, ret>>
    /\ UNCHANGED <<vecVars, gvrVars, csVars>>

\* await this.indexFile(fullPath) suspends on parseFile
DirIndexFile ==
    /\ dirTask.pc = "walk"
    /\ dirTask.queue # <<>>
    /\ \E content \in DirReadable(Head(dirTask.queue)) :
          dirTask' = [pc |-> "parse", dirPath |-> dirTask.dirPath,
                      caller |-> dirTask.caller, queue |-> dirTask.queue,
                      counts |-> dirTask.counts, log |-> dirTask.log,
                      start |-> dirTask.start, content |-> content]
    /\ UNCHANGED <<graph, fileChecksums, ckgPending, ret>>
    /\ UNCHANGED <<vecVars, gvrVars, csVars>>

\* indexFile runs to its end and the walk takes its result
DirResume ==
    /\ dirTask.pc = "parse"
    /\ LET filePath == Head(dirTask.queue)
           out == IndexFileBody(graph, fileChecksums, filePath, dirTask.content)
       IN /\ graph' = out.graph
          /\ fileChecksums' = out.checksums
          /\ dirTask' = [pc |-> "walk", dirPath |-> dirTask.dirPath,
                         caller |-> dirTask.caller,
                         queue |-> Tail(dirTask.queue),
                         counts |-> AddCounts(dirTask.counts, out.result),
                         log |-> Append(dirTask.log,
                                        [path |-> filePath,
                                         content |-> dirTask.content,
                                         result |-> out.result]),
                         start |-> dirTask.start]
    /\ UNCHANGED <<ckgPending, ret>>
    /\ UNCHANGED <<vecVars, gvrVars, csVars>>

\* return { filesIndexed, nodesCreated, edgesCreated }; a run posted by
\* indexProject answers it, and indexProject returns
DirReturn ==
    /\ dirTask.pc = "walk"
    /\ dirTask.queue = <<>>
    /\ ret' = [op |-> "indexDirectory", path |-> dirTask.dirPath,
               result |-> dirTask.counts]
    /\ dirTask' = DIdle
    /\ IF dirTask.caller = <<>>
       THEN UNCHANGED gret
       ELSE gret' = [op |-> "indexProject", path |-> dirTask.dirPath,
                     calls |-> dirTask.caller,
                     result |-> [ckgResult |-> dirTask.counts, success |-> TRUE]]
    /\ UNCHANGED <<graph, fileChecksums, ckgPending>>
    /\ UNCHANGED <<vecVars, gvrTask, csVars>>

\* indexProject: the POST either fails, and indexProject returns at once,
\* or starts a directory run in the graph service
IndexProjectCall(projectPath, fails) ==
    LET calls == IndexProjectCalls(projectPath, fails)
    IN IF fails
       THEN /\ gret' = [op |-> "indexProject", path |-> projectPath,
                        calls |-> calls,
                        result |-> [ckgResult |-> NullResult, success |-> FALSE]]
            /\ UNCHANGED <<ckgVars, vecVars, gvrTask, csVars>>
       ELSE IndexDirectoryCall(projectPath, calls)

NextDir ==
    \/ IndexDirectoryCall(ProjectRoot, <<>>)
    \/ \E fails \in BOOLEAN : IndexProjectCall(ProjectRoot, fails)
    \/ DirIndexFile
    \/ DirResume
    \/ DirReturn
    \/ StoreInsertCall(DirBatch)

SpecDir == Init /\ [][NextDir]_vars

(***************************************************************************)
(* Import resolution: src/main.ts imports "./util" while any of the five   *)
(* paths the specifier may resolve to is indexed or not; its second        *)
(* revision also declares a class that extends the imported class Util.    *)
(* The calls are awaited one at a time.                                    *)
(***************************************************************************)
LinkMain == <<"src", "main.ts">>

LinkTargets ==
    { <<"src", "util.ts">>, <<"src", "util.tsx">>, <<"src", "util", "index.ts">>,
      <<"src", "util", "index.tsx">>, <<"src", "util">> }

LinkContents(filePath) ==
    IF filePath = LinkMain
    THEN { [rev |-> 1, items |-> << Import(<<".", "util">>) >>],
           [rev |-> 2, items |-> << Import(<<"util">>), Import(<<".", "gone">>),
                                    Import(<<".", "util.ts">>),
                                    Import(<<"..", "src", "util">>),
                                    Class("Main", <<"Util">>) >>] }
    ELSE { [rev |-> 1, items |-> << Class("Util", <<>>) >>] }

NextLink ==
    \/ \E filePath \in LinkTargets \cup {LinkMain} :
          \E content \in LinkContents(filePath) :
             ckgPending = {} /\ IndexFileCall(filePath, content)
    \/ \E task \in ckgPending : IndexFileResume(task)
    \/ Clear

SpecLink == Init /\ [][NextLink]_vars

(***************************************************************************)
(* Dependency queries on a graph with a short and a long way to one file:  *)
(* L1 imports Root, L2 imports L1, Hub imports L2 and Root, T1 imports     *)
(* Hub, T2 imports T1 and, in its second revision, itself as well.  The    *)
(* files are indexed one call at a time, each file after the files before  *)
(* it in DepOrder (a file after what it imports).                          *)
(***************************************************************************)
DepRoot == <<"Root.ts">>

DepTail == <<"T2.ts">>

DepOrder ==
    <<DepRoot, <<"L1.ts">>, <<"L2.ts">>, <<"Hub.ts">>, <<"T1.ts">>, DepTail>>

DepContents(filePath) ==
    IF filePath = DepRoot
    THEN { [rev |-> 1, items |-> << Class("Root", <<>>) >>] }
    ELSE IF filePath = <<"L1.ts">>
    THEN { [rev |-> 1, items |-> << Import(<<".", "Root">>) >>] }
    ELSE IF filePath = <<"L2.ts">>
    THEN { [rev |-> 1, items |-> << Import(<<".", "L1">>) >>] }
    ELSE IF filePath = <<"Hub.ts">>
    THEN { [rev |-> 1, items |-> << Import(<<".", "L2">>),
                                    Import(<<".", "Root">>) >>] }
    ELSE IF filePath = <<"T1.ts">>
    THEN { [rev |-> 1, items |-> << Import(<<".", "Hub">>) >>] }
    ELSE { [rev |-> 1, items |-> << Import(<<".", "T1">>) >>],
           [rev |-> 2, items |-> << Import(<<".", "T1">>),
                                    Import(<<".", "T2">>) >>] }

NextDeps ==
    \/ \E i \in 1..Len(DepOrder) : \E content \in DepContents(DepOrder[i]) :
          /\ ckgPending = {}
          /\ \A j \in 1..(i - 1) : FindFileNode(graph, DepOrder[j]) # NoNode
          /\ IndexFileCall(DepOrder[i], content)
    \/ \E task \in ckgPending : IndexFileResume(task)
    \/ \E filePath \in {DepRoot, DepTail}, depth \in 1..MaxDepth :
          GetDependentsCall(filePath, depth)
    \/ \E filePath \in {DepRoot, DepTail}, depth \in 1..MaxDepth :
          GetDependenciesCall(filePath, depth)

SpecDeps == Init /\ [][NextDeps]_vars

(***************************************************************************)
(* GVRService.query with Root.ts focused, on the graph of DepOrder, whose  *)
(* dependents lookup at depth MaxDepth returns six entries, and a vector   *)
(* store of three documents.                                               *)
(***************************************************************************)
ConnBatch ==
    << Doc("d1", DepRoot, <<3, 4>>), Doc("d2", DepTail, <<4, 3>>),
       Doc("d3", <<"Hub.ts">>, <<4, 3>>) >>

ConnQueries ==
    [query : {<<3, 4>>},
     focusedFiles : {<<DepRoot>>},
     topK : {1, MaxGvrTopK},
     graphDepth : {MaxDepth},
     includeGraphContext : BOOLEAN]

NextConn ==
    \/ \E i \in 1..Len(DepOrder) :
          /\ ckgPending = {}
          /\ \A j \in 1..(i - 1) : FindFileNode(graph, DepOrder[j]) # NoNode
          /\ FindFileNode(graph, DepOrder[i]) = NoNode
          /\ IndexFileCall(DepOrder[i],
                           CHOOSE content \in DepContents(DepOrder[i]) :
                              content.rev = 1)
    \/ \E task \in ckgPending : IndexFileResume(task)
    \/ StoreInsertCall(ConnBatch)
    \/ \E q \in ConnQueries, fails \in BOOLEAN : GvrQueryCall(q, fails)
    \/ GvrStep

SpecConn == Init /\ [][NextConn]_vars

(***************************************************************************)
(* CKGService.searchNodes.  Names are compared as sequences of UTF-16 code *)
(* units; NameUnits spells the names of the model's nodes, and an import   *)
(* node's name is its specifier, the segments joined by "/".               *)
(***************************************************************************)
MaxLimit == 2

NameUnits ==
    ("A.ts" :> <<65, 46, 116, 115>>) @@ ("B.ts" :> <<66, 46, 116, 115>>)
    @@ ("Base" :> <<66, 97, 115, 101>>) @@ ("Impl" :> <<73, 109, 112, 108>>)
    @@ ("run" :> <<114, 117, 110>>) @@ ("." :> <<46>>) @@ (".." :> <<46, 46>>)
    @@ ("B" :> <<66>>)

RECURSIVE JoinSegments(_)
JoinSegments(segs) ==
    IF segs = <<>> THEN <<>>
    ELSE IF Len(segs) = 1 THEN NameUnits[Head(segs)]
    ELSE NameUnits[Head(segs)] \o <<47>> \o JoinSegments(Tail(segs))

\* node.name
NodeNameUnits(node) ==
    IF node.type = "import" THEN JoinSegments(node.name) ELSE NameUnits[node.name]

\* String.prototype.includes
Includes(text, part) ==
    \E i \in 0..(Len(text) - Len(part)) : SubSeq(text, i + 1, i + Len(part)) = part

\* the for loop of searchNodes from the k-th node of the map on
RECURSIVE SearchFrom(_, _, _, _, _)
SearchFrom(nodeSeq, lowerQuery, limit, k, results) ==
    IF k > Len(nodeSeq) THEN results
    ELSE IF Includes(ToLowerCase(NodeNameUnits(nodeSeq[k])), lowerQuery)
    THEN IF Len(results) + 1 >= limit
         THEN Append(results, nodeSeq[k])
         ELSE SearchFrom(nodeSeq, lowerQuery, limit, k + 1,
                         Append(results, nodeSeq[k]))
    ELSE SearchFrom(nodeSeq, lowerQuery, limit, k + 1, results)

SearchNodes(g, query, limit) ==
    SearchFrom(g.nodes, ToLowerCase(query), limit, 1, <<>>)

\* the queries "b", "BASE", "ts" and "zz"
SearchQueries == { <<98>>, <<66, 65, 83, 69>>, <<116, 115>>, <<122, 122>> }

SearchNodesCall(query, limit) ==
    /\ ret' = [op |-> "searchNodes", query |-> query, limit |-> limit,
               result |-> SearchNodes(graph, query, limit)]
    /\ UNCHANGED <<graph, fileChecksums, ckgPending>>
    /\ UNCHANGED <<dirTask, vecVars, gvrVars, csVars>>

NextSearch ==
    \/ \E filePath \in Paths : \E content \in Contents(filePath) :
          ckgPending = {} /\ IndexFileCall(filePath, content)
    \/ \E task \in ckgPending : IndexFileResume(task)
    \/ \E query \in SearchQueries, limit \in 0..MaxLimit :
          SearchNodesCall(query, limit)

SpecSearch == Init /\ [][NextSearch]_vars

(***************************************************************************)
(* Vocabulary of the properties                                            *)
(***************************************************************************)
Files(results) == {results[k].file : k \in 1..Len(results)}

NoDuplicateFiles(results) ==
    \A j, k \in 1..Len(results) : results[j].file = results[k].file => j = k

\* file nodes one depends_on hop away from node id (inbound or outbound)
DepNeighbours(g, dir, id) ==
    {EdgeFar(g.edges[k], dir) :
        k \in {j \in 1..Len(g.edges) :
                 /\ g.edges[j].type = "depends_on"
                 /\ EdgeNear(g.edges[j], dir) = id
                 /\ GetNode(g, EdgeFar(g.edges[j], dir)).type = "file"}}

\* file nodes between 1 and n depends_on hops away from node id
RECURSIVE Within(_, _, _, _)
Within(g, dir, id, n) ==
    IF n <= 0 THEN {}
    ELSE IF n = 1 THEN DepNeighbours(g, dir, id)
    ELSE LET near == Within(g, dir, id, n - 1)
         IN near \cup UNION {DepNeighbours(g, dir, x) : x \in near}

PathsOf(g, ids) == {GetNode(g, id).filePath : id \in ids}

\* length of the shortest depends_on path between the file and node id
ShortestDepth(g, dir, id, file) ==
    CHOOSE n \in 1..(Len(g.nodes) + 1) :
       /\ file \in PathsOf(g, Within(g, dir, id, n))
       /\ file \notin PathsOf(g, Within(g, dir, id, n - 1))

IsQuery(r) == r.op \in {"getDependents", "getDependencies"}

QueryDir(r) == IF r.op = "getDependents" THEN "in" ELSE "out"

\* an indexFile call suspended on parseFile completes in this step
Completes(task) == task \in ckgPending /\ ckgPending' = ckgPending \ {task}

DependsOnEdge(fromPath, toPath) ==
    MkEdge("depends_on",
           GenerateNodeId(fromPath, "file", Basename(fromPath)),
           GenerateNodeId(toPath, "file", Basename(toPath)))

\* position of the file node of filePath in the node map (0: none)
FilePos(g, filePath) ==
    LET hits == {k \in 1..Len(g.nodes) :
                    g.nodes[k].type = "file" /\ g.nodes[k].filePath = filePath}
    IN IF hits = {} THEN 0 ELSE CHOOSE k \in hits : TRUE

(***************************************************************************)
(* C1  Indexing a file twice in a row with identical content: the second   *)
(* call returns updated=false with zero counts and leaves the node map,    *)
(* the edge list and the checksum map as the first call left them.         *)
(***************************************************************************)
C1_SecondIndexIsNoOp ==
    [][ \A task \in ckgPending :
          ( /\ Completes(task)
            /\ ret.op = "indexFile"
            /\ ret.path = task.path
            /\ ret.content = task.content
            /\ task.content # ReadError )
          => /\ ret'.op = "indexFile"
             /\ ret'.result = [updated |-> FALSE, nodesCreated |-> 0,
                               edgesCreated |-> 0]
             /\ graph' = graph
             /\ fileChecksums' = fileChecksums ]_ckgVars

C1_Witness ==
    /\ ret.op = "indexFile"
    /\ ret.content # ReadError
    /\ ret.result.updated = FALSE
    /\ ret.path \in DOMAIN fileChecksums
    /\ fileChecksums[ret.path] = Sha256(ret.content)
    /\ Len(graph.edges) > 0

(***************************************************************************)
(* C2  Once A.ts (which imports B) and B.ts have both been indexed, in     *)
(* either order, getDependents(B.ts, 2) has an entry for A.ts at depth 1.  *)
(***************************************************************************)
C2_DependentFoundInEitherOrder ==
    (PathA \in DOMAIN fileChecksums /\ PathB \in DOMAIN fileChecksums)
    => \E k \in 1..Len(GetDependents(graph, PathB, 2)) :
          /\ GetDependents(graph, PathB, 2)[k].file = PathA
          /\ GetDependents(graph, PathB, 2)[k].depth = 1

(***************************************************************************)
(* C3  Removing the nodes of a file (removeFileFromGraph) from any graph   *)
(* the store can reach leaves no edge whose source or target is one of     *)
(* the removed nodes.                                                      *)
(***************************************************************************)
C3_NoDanglingAfterRemove ==
    \A filePath \in Paths \cup {PathMissing} :
       LET removed == NodeIdsOfFile(graph, filePath)
           after == RemoveFileFromGraph(graph, filePath)
       IN \A k \in 1..Len(after.edges) :
             /\ after.edges[k].sourceId \notin removed
             /\ after.edges[k].targetId \notin removed

\* B.ts was re-indexed while an edge from A.ts pointed at it
C3_Witness ==
    /\ ret.op = "indexFile"
    /\ ret.path = PathB
    /\ ret.result.updated
    /\ \A content \in Contents(PathB) :
          ret.removedEdges > Len(ParseFile(PathB, content).edges)
    /\ PathA \in DOMAIN fileChecksums

(***************************************************************************)
(* C4  A dependency query lists each file at most once, and the depth it   *)
(* reports for a file is the length of the shortest depends_on path        *)
(* between that file and the queried file.                                 *)
(***************************************************************************)
C4_OncePerFileAtShortestDepth ==
    IsQuery(ret) =>
       /\ NoDuplicateFiles(ret.result)
       /\ \A k \in 1..Len(ret.result) :
             ret.result[k].depth =
                ShortestDepth(graph, QueryDir(ret),
                              FindFileNode(graph, ret.path).id,
                              ret.result[k].file)

(***************************************************************************)
(* C5  The files a dependency query returns are exactly the files between  *)
(* 1 and depth depends_on hops from the queried file (inbound for          *)
(* getDependents, outbound for getDependencies).                           *)
(***************************************************************************)
C5_ExactlyTheFilesWithinDepth ==
    IsQuery(ret) =>
       Files(ret.result) =
          PathsOf(graph, Within(graph, QueryDir(ret),
                                FindFileNode(graph, ret.path).id, ret.depth))

(***************************************************************************)
(* C6  getDependents(file, 1) returns only direct dependents, each at      *)
(* depth 1, and every file it returns is also returned by                  *)
(* getDependents(file, 3).                                                 *)
(***************************************************************************)
C6_DepthOneIsDirectAndWithinDepthThree ==
    \A filePath \in ChainPaths \cup {PathMissing} :
       LET one == GetDependents(graph, filePath, 1)
           three == GetDependents(graph, filePath, 3)
       IN /\ \A k \in 1..Len(one) :
                /\ one[k].depth = 1
                /\ DependsOnEdge(one[k].file, filePath) \in Range(graph.edges)
          /\ Files(one) \subseteq Files(three)

C6_Witness ==
    /\ ret.op = "getDependents"
    /\ ret.depth = 1
    /\ ret.result # <<>>
    /\ Files(ret.result) # Files(GetDependents(graph, ret.path, 3))

(***************************************************************************)
(* C7  A dependency query for a path that has no file node returns the     *)
(* empty list, raises nothing, and changes neither graph nor checksums.    *)
(***************************************************************************)
C7_UnknownFileYieldsEmpty ==
    [][ (IsQuery(ret') /\ FindFileNode(graph, ret'.path) = NoNode)
        => /\ ret'.result = <<>>
           /\ graph' = graph
           /\ fileChecksums' = fileChecksums ]_ckgVars

C7_Witness ==
    /\ IsQuery(ret)
    /\ FindFileNode(graph, ret.path) = NoNode
    /\ ret.result = <<>>
    /\ Len(graph.edges) > 0

(***************************************************************************)
(* C8  No reader ever sees a half re-indexed file: in every state a query  *)
(* can run in, a file with a recorded checksum has all the nodes and       *)
(* edges of the content with that checksum, and its depends_on link to     *)
(* every import target indexed before it; a file without a recorded        *)
(* checksum has no nodes.  A getNodesForFile result is never the empty     *)
(* list for a file with a recorded checksum.                               *)
(***************************************************************************)
ImportLinked(g, filePath, importSource) ==
    LET cands == PossiblePaths(filePath, importSource)
        present == {k \in 1..Len(cands) : FindFileNode(g, cands[k]) # NoNode}
    IN \A k \in present :
          (present = {k} /\ FilePos(g, cands[k]) < FilePos(g, filePath))
          => DependsOnEdge(filePath, cands[k]) \in Range(g.edges)

FileComplete(g, checksums, filePath) ==
    IF filePath \in DOMAIN checksums
    THEN \E content \in Contents(filePath) :
            LET analysis == ParseFile(filePath, content) IN
            /\ checksums[filePath] = analysis.checksum
            /\ Range(GetNodesForFile(g, filePath)) = Range(analysis.nodes)
            /\ Range(analysis.edges) \subseteq Range(g.edges)
            /\ \A k \in 1..Len(analysis.imports) :
                  IsRelative(analysis.imports[k])
                  => ImportLinked(g, filePath, analysis.imports[k])
    ELSE GetNodesForFile(g, filePath) = <<>>

C8_ReadersNeverSeeHalfUpdate ==
    /\ \A filePath \in Paths \cup {PathMissing} :
          FileComplete(graph, fileChecksums, filePath)
    /\ (ret.op = "getNodesForFile" /\ ret.path \in DOMAIN fileChecksums)
       => ret.result # <<>>

\* a read of a file while a re-index of it on changed content is in flight
C8_Witness ==
    /\ ret.op = "getNodesForFile"
    /\ ret.result # <<>>
    /\ \E task \in ckgPending :
          /\ task.path = ret.path
          /\ task.content # ReadError
          /\ fileChecksums[ret.path] # Sha256(task.content)

(***************************************************************************)
(* Vocabulary of the vector indexing properties                            *)
(***************************************************************************)
DocsOfFile(docs, filePath) ==
    LET OfFile(doc) == doc.filePath = filePath IN SelectSeq(docs, OfFile)

\* what a document or a chunk holds, apart from its uuids
Shape(x) ==
    [content |-> x.content, filePath |-> x.filePath, startLine |-> x.startLine,
     endLine |-> x.endLine, checksum |-> x.checksum]

Shapes(xs) == [k \in 1..Len(xs) |-> Shape(xs[k])]

\* the documents under filePath are one per chunk of content, in order
HoldsExactly(docs, filePath, content) ==
    Shapes(DocsOfFile(docs, filePath)) = Shapes(ChunkContent(filePath, content, 0))

AllCallsDone == \A i \in VecCalls : vecTask[i] = VIdle

\* the documents under filePath all come from content, and every chunk of
\* content has its document
HoldsOnly(docs, filePath, content) ==
    Range(Shapes(DocsOfFile(docs, filePath)))
       = Range(Shapes(ChunkContent(filePath, content, 0)))

(***************************************************************************)
(* C9  Updates of one file never interleave in the vector index: once the  *)
(* concurrent indexFile calls on a path have all completed, the store      *)
(* holds under that path documents of exactly one content (never a mix of  *)
(* the documents of two different contents), and that content is the one   *)
(* whose checksum is recorded for the path.                                *)
(***************************************************************************)
C9_SameFileUpdatesNeverInterleave ==
    \A filePath \in VecPaths :
       (AllCallsDone /\ filePath \in DOMAIN vecChecksums)
       => \E content \in VecContents(filePath) :
             /\ vecChecksums[filePath] = Sha256(content)
             /\ HoldsOnly(documents, filePath, content)

(***************************************************************************)
(* C10  When VectorService.indexFile(path, content) completes: with an     *)
(* unchanged checksum it returns chunksCreated=0 and the store is as it    *)
(* was; otherwise the documents under path are exactly one per chunk of    *)
(* chunkContent(path, content), the recorded checksum is that of content,  *)
(* and no step of the call changes the documents of another path.          *)
(***************************************************************************)
C10_IndexFilePostcondition ==
    [][ \A i \in VecCalls :
          /\ (vecTask[i].pc = "inserted" /\ vecTask'[i] = VIdle)
             => /\ vret'.chunksCreated
                      = Len(ChunkContent(vecTask[i].path, vecTask[i].content, 0))
                /\ HoldsExactly(documents', vecTask[i].path, vecTask[i].content)
                /\ vecChecksums'[vecTask[i].path] = Sha256(vecTask[i].content)
          /\ (vecTask' = vecTask /\ vret' # vret)
             => /\ vret'.chunksCreated = 0
                /\ documents' = documents
                /\ fileIndex' = fileIndex
                /\ vecChecksums' = vecChecksums
                /\ ChecksumUnchanged(vecChecksums, vret'.path,
                                     Sha256(vret'.content))
          /\ (vecTask'[i] # vecTask[i])
             => \A filePath \in VecPaths :
                   (vecTask[i] # VIdle => filePath # vecTask[i].path)
                   /\ (vecTask'[i] # VIdle => filePath # vecTask'[i].path)
                   => DocsOfFile(documents', filePath)
                        = DocsOfFile(documents, filePath) ]_vecVars

(***************************************************************************)
(* Vocabulary of the vector store properties                               *)
(***************************************************************************)
\* the stored documents a search with this filter is about
Matching(docs, filterPath) ==
    LET Match(doc) == filterPath = <<>> \/ doc.filePath = filterPath
    IN SelectSeq(docs, Match)

ResultIds(results) == {results[k].id : k \in 1..Len(results)}

Smaller(a, b) == IF a < b THEN a ELSE b

(***************************************************************************)
(* C11  A search that returns, over a store with N documents matching the  *)
(* filter, returns exactly min(topK, N) results, each a matching document  *)
(* with its cosine score, in non-increasing order of score; every          *)
(* matching document left out scores no more than the last result; with a *)
(* filePath filter only documents of that file are returned.               *)
(***************************************************************************)
C11_SearchReturnsTopKByScore ==
    (vret.op = "search" /\ ~vret.outcome.error) =>
       LET results == vret.outcome.results
           matching == Matching(documents, vret.filterPath)
       IN /\ Len(results) = Smaller(vret.topK, Len(matching))
          /\ \A k \in 1..Len(results) :
                /\ results[k].document \in Range(matching)
                /\ results[k].id = results[k].document.id
                /\ results[k].score
                     = CosineSimilarity(vret.embedding,
                                        results[k].document.embedding)
          /\ \A j, k \in 1..Len(results) :
                /\ (j < k => results[j].score >= results[k].score)
                /\ (results[j].id = results[k].id => j = k)
          /\ \A m \in 1..Len(matching) :
                matching[m].id \notin ResultIds(results)
                => /\ Len(results) > 0
                   /\ CosineSimilarity(vret.embedding, matching[m].embedding)
                        <= results[Len(results)].score
          /\ vret.filterPath # <<>>
             => \A k \in 1..Len(results) :
                   results[k].document.filePath = vret.filterPath

\* top 2 of 3 stored documents, stored in another order than by score
C11_Witness ==
    /\ vret.op = "search"
    /\ ~vret.outcome.error
    /\ vret.topK = 2
    /\ Len(Matching(documents, vret.filterPath)) = 3
    /\ Len(vret.outcome.results) = 2
    /\ vret.outcome.results[1].score > vret.outcome.results[2].score
    /\ vret.outcome.results[1].id # documents[1].id

(***************************************************************************)
(* C12  A search whose query vector differs in length from the stored      *)
(* vectors fails with the dimension mismatch error, a search never changes *)
(* the documents map or the file index, and a search on an empty store     *)
(* returns an empty list without error whatever the query's length.        *)
(***************************************************************************)
C12_WrongSizedQueryIsRejected ==
    [][ vret'.op = "search" =>
          /\ documents' = documents
          /\ fileIndex' = fileIndex
          /\ documents = <<>>
             => vret'.outcome = [error |-> FALSE, results |-> <<>>]
          /\ ( /\ documents # <<>>
               /\ \A k \in 1..Len(documents) :
                     Len(documents[k].embedding) # Len(vret'.embedding) )
             => vret'.outcome.error ]_vecVars

(***************************************************************************)
(* C13  In every reachable state of the store all stored documents'        *)
(* embeddings have the same length.                                        *)
(***************************************************************************)
C13_EmbeddingsHaveOneLength ==
    \A j, k \in 1..Len(documents) :
       Len(documents[j].embedding) = Len(documents[k].embedding)

(***************************************************************************)
(* C14  After deleteByFile(path) no stored document has that filePath,     *)
(* and every document of another filePath is still stored, unchanged.      *)
(***************************************************************************)
C14_DeleteByFileRemovesOnlyThatFile ==
    [][ vret'.op = "deleteByFile" =>
          /\ DocsOfFile(documents', vret'.path) = <<>>
          /\ \A k \in 1..Len(documents) :
                documents[k].filePath # vret'.path
                => documents[k] \in Range(documents') ]_vecVars

(***************************************************************************)
(* Vocabulary of the chunker properties                                    *)
(***************************************************************************)
\* sum of ceil(length / 4) over the lines of a chunk
RECURSIVE SumTokens(_)
SumTokens(lines) ==
    IF lines = <<>> THEN 0
    ELSE (Head(lines).len + 3) \div 4 + SumTokens(Tail(lines))

(***************************************************************************)
(* C15  chunkContent is deterministic in its boundaries and checksums:     *)
(* two calls on the same path and text, whenever they are made, return     *)
(* the same number of chunks, and their i-th chunks have the same          *)
(* startLine, endLine, content and checksum.                               *)
(***************************************************************************)
C15_ChunkingIsDeterministic ==
    \A i, j \in VecCalls :
       ( /\ vecTask[i].pc = "embedded"
         /\ vecTask[j].pc = "embedded"
         /\ vecTask[i].path = vecTask[j].path
         /\ vecTask[i].content = vecTask[j].content )
       => /\ Len(vecTask[i].chunks) = Len(vecTask[j].chunks)
          /\ \A k \in 1..Len(vecTask[i].chunks) :
                /\ vecTask[i].chunks[k].startLine = vecTask[j].chunks[k].startLine
                /\ vecTask[i].chunks[k].endLine = vecTask[j].chunks[k].endLine
                /\ vecTask[i].chunks[k].content = vecTask[j].chunks[k].content
                /\ vecTask[i].chunks[k].checksum = vecTask[j].chunks[k].checksum

\* two calls have chunked the same two-chunk text, under different chunk ids
C15_Witness ==
    /\ vecTask["first"].pc = "embedded"
    /\ vecTask["second"].pc = "embedded"
    /\ vecTask["first"].path = vecTask["second"].path
    /\ vecTask["first"].content = vecTask["second"].content
    /\ Len(vecTask["first"].chunks) = 2
    /\ vecTask["first"].chunks[1].id # vecTask["second"].chunks[1].id

(***************************************************************************)
(* C16  Every chunk of more than one line that chunkContent emits has a    *)
(* token estimate, the sum of ceil(length / 4) over its lines, of at most  *)
(* maxChunkSize, chunks seeded with overlap lines included.                *)
(***************************************************************************)
C16_ChunksAreTokenBounded ==
    vret.op = "chunkContent" =>
       \A k \in 1..Len(vret.chunks) :
          Len(vret.chunks[k].content) > 1
          => SumTokens(vret.chunks[k].content) <= MaxChunkSize

(***************************************************************************)
(* C17  When chunkContent emits more than one chunk, every two consecutive *)
(* chunks share at least one line: the later chunk's startLine is at most  *)
(* the earlier chunk's endLine.                                            *)
(***************************************************************************)
C17_ConsecutiveChunksOverlap ==
    vret.op = "chunkContent" =>
       \A k \in 1..(Len(vret.chunks) - 1) :
          vret.chunks[k + 1].startLine <= vret.chunks[k].endLine

(***************************************************************************)
(* Vocabulary of the GVR properties                                        *)
(***************************************************************************)
GvrDone == gvrTask.pc = "done"

\* 1.0 and 0.0 in hundredths
Indicator(cond) == IF cond THEN 100 ELSE 0

(***************************************************************************)
(* C18  A GVR query returns at most topK results in non-increasing order   *)
(* of combined score, and each result's score is                           *)
(* wsem*semantic + wgraph*graphRelevance + wfocus*focusBoost, where        *)
(* semantic is the vector hit's score, graphRelevance is 1.0 exactly when  *)
(* the hit's file is in impactedFiles and focusBoost is 1.0 exactly when   *)
(* it is in focusedFiles.                                                  *)
(***************************************************************************)
C18_ResultsRankedByCombinedScore ==
    GvrDone =>
       LET results == gvrTask.response.results
           impacted == Range(gvrTask.response.graphContext.impactedFiles)
           focused == Range(gvrTask.q.focusedFiles)
       IN /\ Len(results) <= gvrTask.q.topK
          /\ \A j, k \in 1..Len(results) :
                j < k => results[j].score >= results[k].score
          /\ \A k \in 1..Len(results) :
                LET b == results[k].scoreBreakdown IN
                /\ results[k].score
                     = GetGVRWeights.semantic * b.semantic
                       + GetGVRWeights.graph * b.graphRelevance
                       + GetGVRWeights.focus * b.focusBoost
                /\ \E h \in 1..Len(gvrTask.vectorResults) :
                      /\ gvrTask.vectorResults[h].id = results[k].id
                      /\ gvrTask.vectorResults[h].document.filePath
                           = results[k].filePath
                      /\ gvrTask.vectorResults[h].score = b.semantic
                /\ b.graphRelevance = Indicator(results[k].filePath \in impacted)
                /\ b.focusBoost = Indicator(results[k].filePath \in focused)

\* three hits cut to two; the second owes its rank to the graph signal
C18_Witness ==
    /\ GvrDone
    /\ Len(gvrTask.vectorResults) = 3
    /\ Len(gvrTask.response.results) = 2
    /\ gvrTask.response.results[1].score > gvrTask.response.results[2].score
    /\ gvrTask.response.results[2].scoreBreakdown.graphRelevance = 100
    /\ gvrTask.response.results[2].scoreBreakdown.focusBoost = 0

(***************************************************************************)
(* C19  Scoring monotonicity: of two hits with equal semantic score and    *)
(* equal focus status, one in impactedFiles and one not, the impacted one  *)
(* scores at least as much as the other when wgraph > 0, and is never      *)
(* ranked after it when their scores differ.                               *)
(***************************************************************************)
C19_ImpactedHitNeverRanksLower ==
    (GvrDone /\ GetGVRWeights.graph > 0) =>
       LET results == gvrTask.response.results
           impacted == Range(gvrTask.response.graphContext.impactedFiles)
       IN \A j, k \in 1..Len(results) :
             ( /\ results[j].scoreBreakdown.semantic
                    = results[k].scoreBreakdown.semantic
               /\ results[j].scoreBreakdown.focusBoost
                    = results[k].scoreBreakdown.focusBoost
               /\ results[j].filePath \in impacted
               /\ results[k].filePath \notin impacted )
             => /\ results[j].score >= results[k].score
                /\ results[j].score # results[k].score => j < k

\* the impacted hit was behind the other one in the vector service's order
C19_Witness ==
    /\ GvrDone
    /\ Len(gvrTask.response.results) = 2
    /\ gvrTask.response.results[1].filePath = PathD
    /\ gvrTask.response.results[2].filePath = PathA
    /\ gvrTask.vectorResults[1].document.filePath = PathA
    /\ gvrTask.response.results[1].scoreBreakdown.semantic
         = gvrTask.response.results[2].scoreBreakdown.semantic
    /\ PathD \in Range(gvrTask.response.graphContext.impactedFiles)
    /\ PathA \notin Range(gvrTask.response.graphContext.impactedFiles)

(***************************************************************************)
(* C20  For a query with includeGraphContext=true,                         *)
(* graphContext.impactedFiles contains every focused file and every file   *)
(* that the dependents lookup returned for a focused file (one lookup per  *)
(* focused file), and every result whose file is focused has               *)
(* focusBoost = 1.0.                                                       *)
(***************************************************************************)
C20_ImpactedFilesCoverFocusAndDependents ==
    (GvrDone /\ gvrTask.q.includeGraphContext) =>
       LET results == gvrTask.response.results
           context == gvrTask.response.graphContext
       IN /\ ~context.null
          /\ Range(gvrTask.q.focusedFiles) \subseteq Range(context.impactedFiles)
          /\ Len(gvrTask.returned) = Len(gvrTask.q.focusedFiles)
          /\ \A k \in 1..Len(gvrTask.returned) :
                Range(FilesOf(gvrTask.returned[k]))
                   \subseteq Range(context.impactedFiles)
          /\ \A k \in 1..Len(results) :
                results[k].filePath \in Range(gvrTask.q.focusedFiles)
                => results[k].scoreBreakdown.focusBoost = 100

\* B.ts and C.ts focused at depth 2: D.ts is a dependent of B.ts two hops
\* away, and the hit in C.ts is boosted
C20_Witness ==
    /\ GvrDone
    /\ gvrTask.q.includeGraphContext
    /\ gvrTask.q.focusedFiles = <<PathB, PathC>>
    /\ gvrTask.q.graphDepth = 2
    /\ \E k \in 1..Len(gvrTask.returned[1]) :
          gvrTask.returned[1][k].file = PathD /\ gvrTask.returned[1][k].depth = 2
    /\ PathD \in Range(gvrTask.response.graphContext.impactedFiles)
    /\ \E k \in 1..Len(gvrTask.response.results) :
          /\ gvrTask.response.results[k].filePath = PathC
          /\ gvrTask.response.results[k].scoreBreakdown.focusBoost = 100

(***************************************************************************)
(* Vocabulary of the collaborator-failure properties                       *)
(***************************************************************************)
GraphCalls(calls) == SelectSeq(calls, LAMBDA c : c.route # "search")

\* the calls one query makes when nothing is retried: one search, then for
\* each focused file one dependents lookup and one node listing
CallsOnce(q) ==
    LET n == IF q.includeGraphContext THEN Len(q.focusedFiles) ELSE 0
    IN [k \in 1..(1 + 2 * n) |->
          IF k = 1 THEN [route |-> "search", file |-> <<>>]
          ELSE [route |-> IF k % 2 = 0 THEN "dependents" ELSE "nodes",
                file |-> q.focusedFiles[k \div 2]]]

Unflagged(calls) ==
    [k \in 1..Len(calls) |-> [route |-> calls[k].route, file |-> calls[k].file]]

(***************************************************************************)
(* C21  If every dependents and nodes call of a query fails (the graph     *)
(* backend is unreachable), the query still returns a response and every   *)
(* result has scoreBreakdown.graphRelevance = 0, results in focused files  *)
(* included.                                                               *)
(***************************************************************************)
C21_GraphDownMeansNoGraphRelevance ==
    GvrDone /\ GraphCalls(gvrTask.calls) # <<>>
            /\ (\A k \in 1..Len(gvrTask.calls) :
                   gvrTask.calls[k].route # "search" => gvrTask.calls[k].failed)
    => \A k \in 1..Len(gvrTask.response.results) :
          gvrTask.response.results[k].scoreBreakdown.graphRelevance = 0

(***************************************************************************)
(* C22  Whatever combination of collaborator calls fails, the query        *)
(* completes with a response: a failed vector search yields an empty       *)
(* result list, a failed dependents lookup or node listing contributes     *)
(* nothing, the response is built from exactly what the calls contributed, *)
(* and every call is made once (none is retried).                          *)
(***************************************************************************)
C22_CollaboratorFailuresDegrade ==
    GvrDone =>
       LET calls == gvrTask.calls
           response == gvrTask.response
       IN /\ Unflagged(calls) = CallsOnce(gvrTask.q)
          /\ calls[1].failed =>
                /\ gvrTask.vectorResults = <<>>
                /\ response.results = <<>>
                /\ response.metadata.vectorHits = 0
          /\ \A k \in 1..Len(gvrTask.returned) :
                calls[2 * k].failed => gvrTask.returned[k] = <<>>
          /\ \A k \in 1..Len(gvrTask.listed) :
                calls[2 * k + 1].failed => gvrTask.listed[k] = <<>>
          /\ ~response.graphContext.null =>
                /\ response.graphContext.dependencyChain
                      = Flatten(gvrTask.returned)
                /\ response.graphContext.modifiedSymbols
                      = Flatten(gvrTask.listed)

\* the dependents lookup of B.ts failed, its node listing and the vector
\* search succeeded, and the response carries hits and the listed symbol
C22_Witness ==
    /\ GvrDone
    /\ gvrTask.q.focusedFiles = <<PathB, PathC>>
    /\ gvrTask.q.includeGraphContext
    /\ ~gvrTask.calls[1].failed
    /\ gvrTask.calls[2].failed
    /\ ~gvrTask.calls[3].failed
    /\ ~gvrTask.calls[4].failed
    /\ gvrTask.calls[5].failed
    /\ gvrTask.returned[2] # <<>>
    /\ gvrTask.listed[1] # <<>>
    /\ gvrTask.response.results # <<>>
    /\ gvrTask.response.graphContext.modifiedSymbols # <<>>

(***************************************************************************)
(* C23  A query never blocks indefinitely: once started it eventually      *)
(* returns a response, even when a collaborator call is never answered.    *)
(***************************************************************************)
C23_QueryEventuallyReturns ==
    (gvrTask.pc # "idle") ~> GvrDone

(***************************************************************************)
(* Vocabulary of the directory properties                                  *)
(***************************************************************************)
\* the steps of an indexProject call: its start, the steps of the
\* directory run it posted, and its return
ProjectStep ==
    \/ gret' # gret /\ gret'.op = "indexProject"
    \/ dirTask' # dirTask /\ dirTask.pc # "idle" /\ dirTask.caller # <<>>
    \/ dirTask' # dirTask /\ dirTask'.pc # "idle" /\ dirTask'.caller # <<>>

\* indexFile applied to the logged files one after the other
RECURSIVE IndexAll(_, _, _)
IndexAll(g, checksums, entries) ==
    IF entries = <<>> THEN [graph |-> g, checksums |-> checksums]
    ELSE LET out == IndexFileBody(g, checksums, Head(entries).path,
                                  Head(entries).content)
         IN IndexAll(out.graph, out.checksums, Tail(entries))

RECURSIVE SumUpdated(_)
SumUpdated(entries) ==
    IF entries = <<>> THEN NoCounts
    ELSE LET rest == SumUpdated(Tail(entries))
             r == Head(entries).result
         IN IF r.updated
            THEN [filesIndexed |-> rest.filesIndexed + 1,
                  nodesCreated |-> rest.nodesCreated + r.nodesCreated,
                  edgesCreated |-> rest.edgesCreated + r.edgesCreated]
            ELSE rest

DirWalked == dirTask.pc = "walk" /\ dirTask.queue = <<>>

(***************************************************************************)
(* C24  indexProject changes only the graph store: no step of an           *)
(* indexProject call changes the vector store's documents, file index or   *)
(* checksum map, and when the call returns, failed or not, it has made     *)
(* exactly one call, the directory-index request to the graph service.     *)
(***************************************************************************)
C24_IndexProjectTouchesOnlyTheGraph ==
    [][ProjectStep =>
          /\ documents' = documents
          /\ fileIndex' = fileIndex
          /\ vecChecksums' = vecChecksums
          /\ (gret' # gret =>
                /\ Len(gret'.calls) = 1
                /\ gret'.calls[1].route = "ckg index"
                /\ gret'.calls[1].file = gret'.path)]_vars

\* an indexProject call has indexed files into the graph while the vector
\* store holds documents
C24_Witness ==
    /\ gret.op = "indexProject"
    /\ gret.result.success
    /\ gret.result.ckgResult.filesIndexed > 0
    /\ graph.nodes # <<>>
    /\ documents # <<>>

(***************************************************************************)
(* C26  One bad file never aborts a directory index run: when the walk of  *)
(* indexDirectory ends, every supported file of the tree has been visited, *)
(* the graph and the checksum map are what indexing only the files that    *)
(* could be read and parsed gives, a failing file has result               *)
(* updated=false with zero counts, and the counts are the sums over the    *)
(* files actually updated.                                                 *)
(***************************************************************************)
C26_BadFileNeverAbortsDirectoryRun ==
    DirWalked =>
       LET log == dirTask.log
           ok == SelectSeq(log, LAMBDA e : e.content # ReadError)
           expected == IndexAll(dirTask.start.graph, dirTask.start.checksums, ok)
       IN /\ [k \in 1..Len(log) |-> log[k].path]
                = ProcessDir(dirTask.dirPath, ProjectTree)
          /\ graph = expected.graph
          /\ fileChecksums = expected.checksums
          /\ \A k \in 1..Len(log) :
                log[k].content = ReadError =>
                   log[k].result = [updated |-> FALSE, nodesCreated |-> 0,
                                    edgesCreated |-> 0]
          /\ dirTask.counts = SumUpdated(log)

\* the first file of the walk failed and the two after it were indexed
C26_Witness ==
    /\ DirWalked
    /\ Len(dirTask.log) = 3
    /\ dirTask.log[1].content = ReadError
    /\ dirTask.log[2].result.updated
    /\ dirTask.log[3].result.updated
    /\ dirTask.counts.filesIndexed = 2
    /\ PathA \notin DOMAIN fileChecksums
    /\ PathB \in DOMAIN fileChecksums

(***************************************************************************)
(* C25  A request whose topK is outside [1,50] or whose graphDepth is      *)
(* outside [1,5] is answered with VALIDATION_ERROR and neither the query   *)
(* nor any store is touched; any other request starts the query with the   *)
(* fields the client sent and 10, 2 and true for an omitted topK,          *)
(* graphDepth and includeGraphContext.                                     *)
(***************************************************************************)
C25_OutOfRangeIsRejectedBeforeExecution ==
    [][gret' # gret /\ gret'.op = "POST /gvr/query" =>
          LET body == gret'.body
              outOfRange ==
                 \/ Has(body, "topK") /\ (body.topK < 1 \/ body.topK > 50)
                 \/ Has(body, "graphDepth")
                      /\ (body.graphDepth < 1 \/ body.graphDepth > 5)
          IN IF outOfRange
             THEN /\ gret'.code = "VALIDATION_ERROR"
                  /\ gvrTask' = gvrTask
                  /\ UNCHANGED <<ckgVars, vecVars>>
             ELSE /\ gret'.code = "executing"
                  /\ gvrTask = GIdle
                  /\ gvrTask'.q.topK = (IF Has(body, "topK") THEN body.topK ELSE 10)
                  /\ gvrTask'.q.graphDepth
                        = (IF Has(body, "graphDepth") THEN body.graphDepth ELSE 2)
                  /\ gvrTask'.q.includeGraphContext
                        = (IF Has(body, "includeGraphContext")
                           THEN body.includeGraphContext ELSE TRUE)]_vars

\* a request with topK = 51 has just been rejected while the store holds
\* documents and an earlier request that named only the query text has run
\* with the defaults
C25_Witness ==
    /\ gret.op = "POST /gvr/query"
    /\ gret.code = "VALIDATION_ERROR"
    /\ Has(gret.body, "topK")
    /\ gret.body.topK = 51
    /\ documents # <<>>
    /\ gvrTask.pc = "done"
    /\ gvrTask.q.topK = 10
    /\ gvrTask.q.graphDepth = 2
    /\ gvrTask.q.includeGraphContext
    /\ Len(gvrTask.response.results) = 3

(***************************************************************************)
(* C27  After clear() the graph has no nodes and no edges and the checksum *)
(* map is empty; an indexFile that follows it on a file that was indexed   *)
(* before the clear with the same content returns updated=true and puts    *)
(* the file's nodes and edges back.                                        *)
(***************************************************************************)
C27_ClearForcesReindex ==
    /\ ret.op = "clear" => graph = EmptyGraph /\ fileChecksums = << >>
    /\ ret.op = "indexFile" /\ ret.afterClear =>
          LET analysis == ParseFile(ret.path, ret.content)
          IN /\ ret.result = [updated |-> TRUE,
                              nodesCreated |-> Len(analysis.nodes),
                              edgesCreated |-> Len(analysis.edges)]
             /\ Range(analysis.nodes) \subseteq Range(graph.nodes)
             /\ Range(analysis.edges) \subseteq Range(graph.edges)
             /\ DOMAIN fileChecksums = {ret.path}
             /\ fileChecksums[ret.path] = analysis.checksum

\* B.ts, indexed before the clear, has been indexed again with the same
\* content and its class, method and edges are back
C27_Witness ==
    /\ ret.op = "indexFile"
    /\ ret.afterClear
    /\ ret.path = PathB
    /\ Len(graph.nodes) > 1
    /\ Len(graph.edges) > 0

(***************************************************************************)
(* C30  Re-indexing a changed file keeps the dependency edges that point   *)
(* at it: when indexFile completes on a file whose content has changed     *)
(* since it was indexed, every depends_on edge from another file to it     *)
(* that existed before still exists afterwards, and getDependents of the   *)
(* file at depth 1 still lists that other file.                            *)
(***************************************************************************)
C30_ReindexKeepsInboundEdges ==
    [][ \A task \in ckgPending, other \in Paths :
          ( /\ Completes(task)
            /\ task.content # ReadError
            /\ other # task.path
            /\ task.path \in DOMAIN fileChecksums
            /\ fileChecksums[task.path] # Sha256(task.content)
            /\ DependsOnEdge(other, task.path) \in Range(graph.edges) )
          => /\ DependsOnEdge(other, task.path) \in Range(graph'.edges)
             /\ other \in Files(GetDependents(graph', task.path, 1)) ]_ckgVars

(***************************************************************************)
(* C29  create stores a new change set with status 'pending' that get(id)  *)
(* returns; updateStatus(id, s) on a stored id returns true and makes      *)
(* get(id).status equal s, leaving every other change set as it was;       *)
(* updateStatus on an id that is not stored returns false and changes no   *)
(* stored change set.                                                      *)
(***************************************************************************)
C29_CreateGetUpdateStatus ==
    [][csRet' # csRet =>
          /\ csRet'.op = "create" =>
                /\ csRet'.result.status = "pending"
                /\ csRet'.result.id \notin DOMAIN changeSets
                /\ GetChangeSet(changeSets', csRet'.result.id) = csRet'.result
                /\ \A id \in DOMAIN changeSets :
                      GetChangeSet(changeSets', id) = changeSets[id]
          /\ csRet'.op = "updateStatus" =>
                IF csRet'.id \in DOMAIN changeSets
                THEN /\ csRet'.result = TRUE
                     /\ GetChangeSet(changeSets', csRet'.id).status = csRet'.status
                     /\ DOMAIN changeSets' = DOMAIN changeSets
                     /\ \A id \in DOMAIN changeSets \ {csRet'.id} :
                           changeSets'[id] = changeSets[id]
                ELSE /\ csRet'.result = FALSE
                     /\ changeSets' = changeSets]_vars

\* a stored change set has been moved to 'applied' while another one is
\* still pending, and an id that was deleted is no longer stored
C29_Witness ==
    /\ csRet.op = "updateStatus"
    /\ csRet.result = TRUE
    /\ csRet.status = "applied"
    /\ DOMAIN changeSets = {2}
    /\ changeSets[2].status = "applied"
    /\ changeSets[2].updatedAt # changeSets[2].createdAt

(***************************************************************************)
(* Vocabulary of the embedding properties                                  *)
(***************************************************************************)
\* the low 26 bits of the exact value of 31^n-weighted sum of the code
\* units, computed without leaving 31 bits
RECURSIVE ExactHashLow26(_, _, _)
ExactHashLow26(acc, normalized, i) ==
    IF i > Len(normalized) THEN acc
    ELSE ExactHashLow26((acc * 31 + normalized[i]) % 67108864, normalized, i + 1)

\* entry k of an embedding, as the generator's 31-bit output
Output(embedding, k) == embedding.direction[k] + 1073741824

\* the generator outputs follow one another as multiples by 48271 do in
\* their low 15 bits, starting from the seed of the text
FollowsGenerator(text, embedding) ==
    LET seedLow == ExactHashLow26(0, Trim(ToLowerCase(text)), 1) % 32768
    IN \A k \in 1..Len(embedding.direction) :
          Output(embedding, k) % 32768
             = (48271 * (IF k = 1 THEN seedLow
                         ELSE Output(embedding, k - 1) % 32768)) % 32768

WellFormed(text, embedding) ==
    /\ Len(embedding.direction) = Dimensions
    /\ \A k \in 1..Len(embedding.direction) :
          Output(embedding, k) >= 0 /\ embedding.direction[k] < 1073741824
    /\ FollowsGenerator(text, embedding)

(***************************************************************************)
(* C28  embed(text) returns a vector of exactly getDimensions() entries,   *)
(* the same vector every time the same text is embedded, and               *)
(* embedBatch(texts) returns at each position the vector embed returns     *)
(* for that text; the seed hash and the generator steps wrap around at 32  *)
(* bits, so every output is a 31-bit number that continues the sequence of *)
(* multiples by 48271 of the text's hash.                                  *)
(***************************************************************************)
C28_MockEmbeddingContract ==
    /\ vret.op = "embed" =>
          /\ WellFormed(vret.text, vret.result)
          /\ vret.result = vret.seen[vret.text]
    /\ vret.op = "embedBatch" =>
          /\ Len(vret.result) = Len(vret.texts)
          /\ \A k \in 1..Len(vret.texts) :
                /\ WellFormed(vret.texts[k], vret.result[k])
                /\ vret.result[k] = vret.seen[vret.texts[k]]
                /\ vret.result[k] = MockEmbed(vret.texts[k])

\* a batch of two texts, the second with a hash that has wrapped to a
\* negative seed, both embedded one by one before, returns the vectors
\* those calls returned
C28_Witness ==
    /\ vret.op = "embedBatch"
    /\ vret.texts = <<TextHello, TextLong>>
    /\ DOMAIN vret.seen = EmbedTexts
    /\ HashSeed(0, TextLong, 1) < 0
    /\ vret.result[1] # vret.result[2]
    /\ vret.seen[TextHello] = vret.seen[TextHelloPadded]

\* the candidate paths of a specifier, in the order of the priority list
Candidates(filePath, specifier) ==
    << PathJoin(Dirname(filePath), WithSuffix(specifier, ".ts")),
       PathJoin(Dirname(filePath), WithSuffix(specifier, ".tsx")),
       PathJoin(Dirname(filePath), specifier \o <<"index.ts">>),
       PathJoin(Dirname(filePath), specifier \o <<"index.tsx">>),
       PathJoin(Dirname(filePath), specifier) >>

HasFileNode(g, filePath) ==
    \E k \in 1..Len(g.nodes) :
       g.nodes[k].type = "file" /\ g.nodes[k].filePath = filePath

\* the depends_on edges one specifier must yield: none, or one
ExpectedLink(g, filePath, specifier) ==
    LET cands == Candidates(filePath, specifier)
        found == {k \in 1..Len(cands) : HasFileNode(g, cands[k])}
    IN IF ~IsRelative(specifier) \/ found = {} THEN <<>>
       ELSE << DependsOnEdge(filePath,
                             cands[CHOOSE k \in found : \A j \in found : k <= j]) >>

ExpectedLinks(g, filePath, specifiers) ==
    Flatten([k \in 1..Len(specifiers) |-> ExpectedLink(g, filePath, specifiers[k])])

\* the depends_on edges out of the file node of filePath, in edge-list order
DependsOnFrom(g, filePath) ==
    LET FromFile(e) ==
          /\ e.type = "depends_on"
          /\ e.sourceId = GenerateNodeId(filePath, "file", Basename(filePath))
    IN SelectSeq(g.edges, FromFile)

(***************************************************************************)
(* C31  After indexFile has indexed a file, the depends_on edges out of    *)
(* its file node are, specifier by specifier in import order: one edge to  *)
(* the first of specifier.ts, specifier.tsx, specifier/index.ts,           *)
(* specifier/index.tsx, specifier that has a file node, for a relative     *)
(* specifier with such a candidate; no edge for a relative specifier       *)
(* without one (and the call still succeeds); no edge for a non-relative   *)
(* specifier.                                                              *)
(***************************************************************************)
C31_ImportsLinkToFirstCandidate ==
    (ret.op = "indexFile" /\ ret.result.updated)
    => DependsOnFrom(graph, ret.path)
          = ExpectedLinks(graph, ret.path, ImportSources(ret.content.items))

\* main.ts was indexed while util.tsx, util/index.ts and the raw path had
\* file nodes but util.ts had none: one edge, to util.tsx
C31_Witness ==
    /\ ret.op = "indexFile" /\ ret.result.updated
    /\ ret.path = LinkMain /\ ret.content.rev = 1
    /\ ~HasFileNode(graph, <<"src", "util.ts">>)
    /\ HasFileNode(graph, <<"src", "util.tsx">>)
    /\ HasFileNode(graph, <<"src", "util", "index.ts">>)
    /\ HasFileNode(graph, <<"src", "util">>)
    /\ DependsOnFrom(graph, LinkMain)
          = << DependsOnEdge(LinkMain, <<"src", "util.tsx">>) >>

(***************************************************************************)
(* C32  Every file that getDependents(file, d) or getDependencies(file, d) *)
(* returns is also returned by the same query with depth d + 1.            *)
(***************************************************************************)
C32_DeeperQueryLosesNoFile ==
    IsQuery(ret)
    => Files(ret.result)
          \subseteq Files(DependencyQuery(graph, QueryDir(ret), ret.path,
                                          ret.depth + 1))

(***************************************************************************)
(* C33  The result of getDependents(file, depth) or                        *)
(* getDependencies(file, depth) never lists the queried file itself.       *)
(***************************************************************************)
C33_QueriedFileNotInItsOwnResult ==
    IsQuery(ret) => ret.path \notin Files(ret.result)

(***************************************************************************)
(* C34  In every state of the graph store every edge of the edge list has  *)
(* a sourceId and a targetId that are ids of nodes in the node map.        *)
(***************************************************************************)
C34_EveryEdgeHasBothEndpoints ==
    \A k \in 1..Len(graph.edges) :
       /\ graph.edges[k].sourceId \in NodeIds(graph)
       /\ graph.edges[k].targetId \in NodeIds(graph)

\* the ids the file index holds under filePath (none without an entry)
IndexedIds(index, filePath) ==
    IF filePath \in DOMAIN index THEN index[filePath] ELSE {}

(***************************************************************************)
(* C35  In every state of the vector store the file index maps each        *)
(* filePath to exactly the ids of the stored documents with that filePath. *)
(***************************************************************************)
C35_FileIndexMatchesDocuments ==
    \A filePath \in DOMAIN fileIndex
                    \cup {documents[k].filePath : k \in 1..Len(documents)} :
       IndexedIds(fileIndex, filePath)
          = {documents[k].id :
               k \in {j \in 1..Len(documents) : documents[j].filePath = filePath}}

(***************************************************************************)
(* C36  Every chunk chunkContent emits, the final remainder included, has  *)
(* a token estimate ceil(length(content) / 4) of at least minChunkSize;    *)
(* a candidate below that size is not emitted, and the loop continues with *)
(* an overlap taken from its lines: the next candidate starts within the   *)
(* lines of the dropped one.                                               *)
(***************************************************************************)
C36_SmallChunksDroppedButSeedOverlap ==
    vret.op = "chunkContent" =>
       /\ \A k \in 1..Len(vret.chunks) :
             (JoinedLength(vret.chunks[k].content) + 3) \div 4 >= MinChunkSize
       /\ \A k \in 1..Len(vret.dropped) :
             LET d == vret.dropped[k]
                 held == SubSeq(vret.content, d.startLine, d.endLine)
             IN /\ (JoinedLength(held) + 3) \div 4 < MinChunkSize
                /\ \A j \in 1..Len(vret.chunks) :
                      ~ ( /\ vret.chunks[j].startLine = d.startLine
                          /\ vret.chunks[j].endLine = d.endLine )
                /\ d.startLine <= d.next /\ d.next <= d.endLine

\* a 32-token line before a 510-token line: the candidate made of the
\* first line is dropped, and the chunk emitted next starts with that line
C36_Witness ==
    /\ vret.op = "chunkContent"
    /\ Len(vret.dropped) > 0
    /\ \E j \in 1..Len(vret.chunks) :
          /\ vret.chunks[j].startLine = vret.dropped[1].next
          /\ vret.chunks[j].startLine <= vret.dropped[1].endLine
          /\ vret.chunks[j].endLine > vret.dropped[1].endLine

(***************************************************************************)
(* C37  Every chunk chunkContent emits has 1 <= startLine <= endLine <=    *)
(* number of lines of the text, its content is exactly the lines           *)
(* startLine..endLine of the text, and from one chunk to the next both     *)
(* startLine and endLine strictly increase.                                *)
(***************************************************************************)
C37_ChunksAreAdvancingLineRanges ==
    vret.op = "chunkContent" =>
       /\ \A k \in 1..Len(vret.chunks) :
             /\ 1 <= vret.chunks[k].startLine
             /\ vret.chunks[k].startLine <= vret.chunks[k].endLine
             /\ vret.chunks[k].endLine <= Len(vret.content)
             /\ vret.chunks[k].content
                   = SubSeq(vret.content, vret.chunks[k].startLine,
                            vret.chunks[k].endLine)
       /\ \A k \in 1..(Len(vret.chunks) - 1) :
             /\ vret.chunks[k].startLine < vret.chunks[k + 1].startLine
             /\ vret.chunks[k].endLine < vret.chunks[k + 1].endLine

(***************************************************************************)
(* C38  query asks the vector backend for exactly topK * 2 candidates      *)
(* (a backend that answers returns that many hits, or all its documents    *)
(* when it has fewer); each result's connectedFiles has at most 5 entries, *)
(* each a file of graphContext.dependencyChain; with                       *)
(* includeGraphContext = false graphContext is null and every result has   *)
(* empty connectedFiles and graphRelevance 0.                              *)
(***************************************************************************)
C38_OverFetchAndConnectedFiles ==
    [][ /\ ( /\ gvrTask = GIdle
             /\ gvrTask'.pc \in {"dependents", "done"}
             /\ ~gvrTask'.calls[1].failed )
           => Len(gvrTask'.vectorResults)
                 = Smaller(gvrTask'.q.topK * 2, Len(documents))
        /\ gvrTask'.pc = "done"
           => LET response == gvrTask'.response
                  chain == response.graphContext.dependencyChain
              IN /\ \A k \in 1..Len(response.results) :
                       /\ Len(response.results[k].connectedFiles) <= 5
                       /\ Range(response.results[k].connectedFiles)
                             \subseteq {chain[j].file : j \in 1..Len(chain)}
                 /\ ~gvrTask'.q.includeGraphContext
                    => /\ response.graphContext.null
                       /\ \A k \in 1..Len(response.results) :
                             /\ response.results[k].connectedFiles = <<>>
                             /\ response.results[k].scoreBreakdown.graphRelevance
                                   = 0 ]_vars

\* a query with topK 1 got 2 of the 3 stored documents as hits, and its
\* result carries 5 of the 6 files of the dependency chain
C38_Witness ==
    /\ gvrTask.pc = "done"
    /\ gvrTask.q.topK = 1
    /\ gvrTask.q.includeGraphContext
    /\ Len(documents) = 3
    /\ gvrTask.response.metadata.vectorHits = 2
    /\ Len(gvrTask.response.graphContext.dependencyChain) > 5
    /\ Len(gvrTask.response.results) = 1
    /\ Len(gvrTask.response.results[1].connectedFiles) = 5

(***************************************************************************)
(* C39  In every result of a query with includeGraphContext = true,        *)
(* focusBoost = 1.0 implies graphRelevance = 1.0, whatever the graph       *)
(* backend returned and whether or not its calls failed.                   *)
(***************************************************************************)
C39_FocusedImpliesImpacted ==
    (GvrDone /\ gvrTask.q.includeGraphContext)
    => \A k \in 1..Len(gvrTask.response.results) :
          gvrTask.response.results[k].scoreBreakdown.focusBoost = 100
          => gvrTask.response.results[k].scoreBreakdown.graphRelevance = 100

\* every graph call of the query failed, and a hit in the focused file C.ts
\* still has both components at 1.0
C39_Witness ==
    /\ GvrDone
    /\ gvrTask.q.includeGraphContext
    /\ gvrTask.q.focusedFiles = <<PathB, PathC>>
    /\ Len(gvrTask.calls) = 5
    /\ \A k \in 2..5 : gvrTask.calls[k].failed
    /\ \E k \in 1..Len(gvrTask.response.results) :
          /\ gvrTask.response.results[k].filePath = PathC
          /\ gvrTask.response.results[k].scoreBreakdown.focusBoost = 100
          /\ gvrTask.response.results[k].scoreBreakdown.graphRelevance = 100

\* the nodes of the map whose name contains query, case-insensitively, in
\* insertion order
MatchingNodes(g, query) ==
    SelectSeq(g.nodes,
              LAMBDA n : Includes(ToLowerCase(NodeNameUnits(n)), ToLowerCase(query)))

(***************************************************************************)
(* C40  searchNodes(query, limit) returns only nodes whose name contains   *)
(* query case-insensitively, in the node map's insertion order, never      *)
(* more than limit nodes for any limit >= 0, and the first limit matching  *)
(* nodes when at least limit nodes match.                                  *)
(***************************************************************************)
C40_SearchReturnsFirstMatchesUpToLimit ==
    ret.op = "searchNodes" =>
       LET matching == MatchingNodes(graph, ret.query) IN
       /\ Len(ret.result) <= Len(matching)
       /\ ret.result = SubSeq(matching, 1, Len(ret.result))
       /\ Len(ret.result) <= ret.limit
       /\ Len(matching) >= ret.limit => Len(ret.result) = ret.limit

====
